---- MODULE Spec2Model ----
(***************************************************************************)
(* Verification model of the zotero-roam maintenance scripts and of the    *)
(* data helpers proposed in IMPROVEMENT_PLAN.md.                           *)
(*                                                                         *)
(* TransportSpec     : one request sent through an axios client, with the  *)
(*                     response interceptor of the scripts (backoff+retry).*)
(* TransportFairSpec : the same, with armed timers eventually firing.      *)
(* MergeSpec         : matchWithCurrentData applied to the served item     *)
(*                     list, arrays held by reference.                     *)
(* OrderSpec         : two deltas on disjoint keys merged in both orders.  *)
(* PageSpec          : fetchAdditionalData, the remaining pages fetched in *)
(*                     batches, answers arriving in any order.             *)
(* TagSpec           : categorizeZoteroTags applied to a token list.       *)
(* CacheSpec         : the cache store, one record per library identity.   *)
(* SyncSpec          : the sync coordinator, one cycle per identity.       *)
(* SyncFairSpec      : the same, with every fetch eventually returning.    *)
(* KidsSpec          : buildChildrenIndex and identifyChildren.            *)
(* ScriptSpec        : one run of a script: addItemsToZotero, main of      *)
(*                     add-annotations, main of add-collections-and-notes. *)
(* BootSpec          : the start of a script, from reading .env to its     *)
(*                     first request.                                      *)
(* CalloutSpec       : the ErrorCallout component rendered for an error.   *)
(***************************************************************************)
EXTENDS Integers, Sequences, FiniteSets, TLC

VARIABLES
    \* ---- transport -------------------------------------------------------
    op,         \* the script operation that awaits the request ("none" = not started)
    pc,         \* "idle" | "inflight" | "waiting" | "resolved" | "rejected"
    config,     \* the request config the operation passed to the client
    sent,       \* the config of the request that is (or was last) on the wire
    resp,       \* the last answer of the endpoint
    delayMs,    \* the delay handed to setTimeout by the interceptor
    elapsed,    \* ms elapsed since that timer was armed
    attempts,   \* requests put on the wire for this send (saturates at MaxCount)
    failures,   \* 429/5xx answers handled by the interceptor (saturates at MaxCount)
    outcome,    \* what the awaiting operation observes
    \* ---- delta merge -----------------------------------------------------
    heap,       \* the live arrays, by reference
    current,    \* reference of the array returned by the last merge (the served item list)
    prevRef,    \* reference of the arr argument of the last merge (a reader may still hold it)
    prev,       \* the contents of arr at the moment the last merge was called
    delta,      \* the update argument of the last merge
    merges,     \* number of merges performed
    \* ---- two merge orders -------------------------------------------------
    s0,         \* a snapshot
    d1,         \* a delta
    d2,         \* a delta touching keys disjoint from those of d1
    r12,        \* s0 merged with d1 then d2
    r21,        \* s0 merged with d2 then d1
    \* ---- pagination -------------------------------------------------------
    pager,      \* the state of one fetchAdditionalData call (a record, see PagerIdle)
    \* ---- tag index --------------------------------------------------------
    tagger,     \* the state of one categorizeZoteroTags call (a record, see TaggerIdle)
    \* ---- cache store ------------------------------------------------------
    cache,      \* the persisted records and the clock (a record, see CacheIdle)
    \* ---- sync coordinator -------------------------------------------------
    sync,       \* the coordinator's state (a record, see SyncIdle)
    \* ---- parent-child views ----------------------------------------------
    kids,       \* the children index and one lookup (a record, see KidsIdle)
    \* ---- scripts ----------------------------------------------------------
    upload,     \* one run of addItemsToZotero (a record, see UploadIdle)
    collect,    \* one run of main of add-collections-and-notes (a record, see CollectIdle)
    annot,      \* one run of main of add-annotations (a record, see AnnotIdle)
    boot,       \* the start of one script up to its first request (a record, see BootIdle)
    \* ---- error display ----------------------------------------------------
    callout     \* the ErrorCallout component and navigator.onLine (a record, see CalloutIdle)

transportVars == <<op, pc, config, sent, resp, delayMs, elapsed, attempts, failures, outcome>>
mergeVars == <<heap, current, prevRef, prev, delta, merges>>
orderVars == <<s0, d1, d2, r12, r21>>
engineVars == <<pager, tagger, cache, sync>>
scriptVars == <<kids, upload, collect, annot>>
hostVars == <<boot, callout>>
vars == <<transportVars, mergeVars, orderVars, engineVars, scriptVars, hostVars>>

(***************************************************************************)
(* Bounds                                                                  *)
(***************************************************************************)
MaxCount == 3
MaxMerges == 2
MaxModified == 2
MaxPages == 7
MaxTokens == 3
MaxTime == 5
MaxCycles == 2
MaxVersion == 4
MaxPdfs == 2
MaxNotes == 1
MaxItems == 101
MaxFetched == 2

(***************************************************************************)
(* Transport: axios client + response interceptor                          *)
(***************************************************************************)
\* Number(x) of a value that is not a number
NaN == -1

\* statuses an endpoint may answer with
Statuses == {200, 404, 429, 500, 503}

\* values a retry-after / backoff header may carry
HeaderValues == {"", "0", "2", "soon"}

HeaderNames == {"retry-after", "backoff"}

\* the header objects of a response: any subset of the two headers may be present
HeaderSets == UNION {[S -> HeaderValues] : S \in SUBSET HeaderNames}

NoHeaders == CHOOSE h \in HeaderSets : DOMAIN h = {}

\* an answer of the endpoint; hasResponse = FALSE is a network failure
\* (axios rejects with an error whose response is undefined)
Responses ==
    [hasResponse : {TRUE}, status : Statuses, headers : HeaderSets]
    \cup {[hasResponse |-> FALSE, status |-> 0, headers |-> NoHeaders]}

NoResp == [hasResponse |-> FALSE, status |-> 0, headers |-> NoHeaders]

\* the script operations that call the remote API, and the client each one uses
Ops == {"addItemsToZotero", "createCollections", "getItems",
        "getPDFs", "addAnnotationsToPDF", "checkCitekeys"}

ClientOf(o) ==
    CASE o = "addItemsToZotero" -> "populate"
      [] o \in {"createCollections", "getItems"} -> "collections"
      [] o \in {"getPDFs", "addAnnotationsToPDF"} -> "annotations"
      [] OTHER -> "citekeys"

\* the clients on which interceptors.response.use(...) is called
HasInterceptor(c) == c \in {"populate", "collections"}

ConfigOf(o) ==
    CASE o = "addItemsToZotero" -> [method |-> "post", url |-> "users/items"]
      [] o = "createCollections" -> [method |-> "post", url |-> "users/collections"]
      [] o = "getItems" -> [method |-> "get", url |-> "users/items/top"]
      [] o = "getPDFs" -> [method |-> "get", url |-> "users/items"]
      [] o = "addAnnotationsToPDF" -> [method |-> "post", url |-> "users/items"]
      [] OTHER -> [method |-> "get", url |-> "/items"]

NoConfig == [method |-> "", url |-> ""]

\* axios default validateStatus: 2xx resolves, anything else rejects
ValidateStatus(s) == s >= 200 /\ s < 300

\* JS truthiness of headers[name]: undefined and "" are falsy, "0" is truthy
Truthy(h, name) == name \in DOMAIN h /\ h[name] # ""

\* headers['retry-after'] || headers['backoff'] || 5
RetryAfterBackoffFirst(h) ==
    IF Truthy(h, "backoff") THEN h["backoff"]
    ELSE IF Truthy(h, "retry-after") THEN h["retry-after"]
    ELSE "5"

RetryAfter(h) ==
    IF Truthy(h, "retry-after") THEN h["retry-after"]
    ELSE IF Truthy(h, "backoff") THEN h["backoff"]
    ELSE "5"

\* Number(x) for the values RetryAfter can yield
Number(x) ==
    CASE x = "0" -> 0
      [] x = "2" -> 2
      [] x = "5" -> 5
      [] x = ""  -> 0
      [] OTHER   -> NaN

\* Number(retryAfter) * 1000
DelayMs(h) ==
    IF Number(RetryAfter(h)) = NaN THEN NaN ELSE Number(RetryAfter(h)) * 1000

\* setTimeout(fn, d): a delay that is NaN or below 1 is run as 1 ms
TimerDelay(d) == IF d = NaN \/ d < 1 THEN 1 ELSE d

\* status === 429 || status >= 500
RetryableAlso4xx(r) == r.hasResponse /\ (r.status >= 400)

Retryable(r) == r.hasResponse /\ (r.status = 429 \/ r.status >= 500)

\* the error branch of the interceptor with a cap on the failures it retries
InterceptorRetriesCapped(c, r, n) == HasInterceptor(c) /\ Retryable(r) /\ n < 2

\* whether the failure r of a request of client c is answered by backoff and
\* retry (n = the failures already retried for this send, which the code ignores)
InterceptorRetries(c, r, n) == HasInterceptor(c) /\ Retryable(r)

\* the counters of the model saturate at MaxCount
Bump(n) == IF n < MaxCount THEN n + 1 ELSE n

\* the config the interceptor re-issues: error.config
ReissueConfigAsGet(c) == [c EXCEPT !.method = "get", !.url = "users/items/top"]

ReissueConfig(c) == c

NoOutcome == [kind |-> "none", status |-> 0]

\* an operation calls zoteroClient.get / zoteroClient.post and awaits it
Send ==
    /\ pc \in {"idle", "resolved", "rejected"}
    /\ \E o \in Ops :
        /\ op' = o
        /\ config' = ConfigOf(o)
        /\ sent' = ConfigOf(o)
    /\ pc' = "inflight"
    /\ resp' = NoResp
    /\ delayMs' = 0
    /\ elapsed' = 0
    /\ attempts' = 1
    /\ failures' = 0
    /\ outcome' = NoOutcome
    /\ UNCHANGED <<mergeVars, orderVars, engineVars, scriptVars, hostVars>>

\* the endpoint answers 2xx: response => response, the awaiting operation resumes
RespondOk ==
    /\ pc = "inflight"
    /\ \E r \in Responses :
        /\ r.hasResponse /\ ValidateStatus(r.status)
        /\ resp' = r
        /\ outcome' = [kind |-> "response", status |-> r.status]
    /\ pc' = "resolved"
    /\ UNCHANGED <<op, config, sent, delayMs, elapsed, attempts, failures>>
    /\ UNCHANGED <<mergeVars, orderVars, engineVars, scriptVars, hostVars>>

\* the endpoint answers 429/5xx on a client with the interceptor:
\* the interceptor arms the timer and suspends
RespondRetry ==
    /\ pc = "inflight"
    /\ \E r \in Responses :
        /\ ~ValidateStatus(r.status)
        /\ InterceptorRetries(ClientOf(op), r, failures)
        /\ resp' = r
        /\ delayMs' = DelayMs(r.headers)
    /\ elapsed' = 0
    /\ failures' = Bump(failures)
    /\ pc' = "waiting"
    /\ UNCHANGED <<op, config, sent, attempts, outcome>>
    /\ UNCHANGED <<mergeVars, orderVars, engineVars, scriptVars, hostVars>>

\* any other failure: Promise.reject(error); on a client without interceptor
\* every failure is rejected by axios itself
RespondReject ==
    /\ pc = "inflight"
    /\ \E r \in Responses :
        /\ ~(r.hasResponse /\ ValidateStatus(r.status))
        /\ ~InterceptorRetries(ClientOf(op), r, failures)
        /\ resp' = r
        /\ outcome' = [kind |-> IF r.hasResponse THEN "error" ELSE "network",
                       status |-> r.status]
    /\ pc' = "rejected"
    /\ UNCHANGED <<op, config, sent, delayMs, elapsed, attempts, failures>>
    /\ UNCHANGED <<mergeVars, orderVars, engineVars, scriptVars, hostVars>>

\* time passes, in steps of one second, while the interceptor is suspended in setTimeout
Tick ==
    /\ pc = "waiting"
    /\ elapsed < TimerDelay(delayMs)
    /\ elapsed' = elapsed + 1000
    /\ UNCHANGED <<op, pc, config, sent, resp, delayMs, attempts, failures, outcome>>
    /\ UNCHANGED <<mergeVars, orderVars, engineVars, scriptVars, hostVars>>

\* the timer fires: return zoteroClient.request(error.config)
Reissue ==
    /\ pc = "waiting"
    /\ elapsed >= TimerDelay(delayMs)
    /\ sent' = ReissueConfig(sent)
    /\ attempts' = Bump(attempts)
    /\ pc' = "inflight"
    /\ UNCHANGED <<op, config, resp, delayMs, elapsed, failures, outcome>>
    /\ UNCHANGED <<mergeVars, orderVars, engineVars, scriptVars, hostVars>>

TransportNext == Send \/ RespondOk \/ RespondRetry \/ RespondReject \/ Tick \/ Reissue

(***************************************************************************)
(* Delta merge: matchWithCurrentData (IMPROVEMENT_PLAN.md, 2.2)            *)
(***************************************************************************)
Keys == {"A", "B", "C"}

\* an item, reduced to data.key and version
Items == [key : Keys, version : {1, 2}]

\* an empty slot of a sparse JS array
Hole == [key |-> "<empty>", version |-> 0]

KeySeq(a) == [i \in 1..Len(a) |-> a[i].key]

DistinctKeys(a) == \A i, j \in 1..Len(a) : i # j => a[i].key # a[j].key

RECURSIVE SeqsUpTo(_, _)
\* the sequences over S of length at most n
SeqsUpTo(S, n) ==
    IF n = 0 THEN {<<>>}
    ELSE LET shorter == SeqsUpTo(S, n - 1)
         IN shorter \cup {Append(q, x) : q \in shorter, x \in S}

\* the snapshots a library can start from: version-1 items with unique keys
Snapshots ==
    {a \in SeqsUpTo([key : Keys, version : {1}], Cardinality(Keys)) : DistinctKeys(a)}

\* the updates of an incremental fetch: { modified?: T[], deleted?: string[] };
\* deleted is only ever used through new Set(deleted), so it is kept as a set
Updates ==
    [modified : {a \in SeqsUpTo([key : Keys, version : {2}], MaxModified) : DistinctKeys(a)},
     deleted : SUBSET Keys]

NoUpdate == [modified |-> <<>>, deleted |-> {}]

\* a[i] = v for a JS index i: writing past the end leaves empty slots in between
ArraySet(a, i, v) ==
    IF i < Len(a) THEN [a EXCEPT ![i + 1] = v]
    ELSE a \o [k \in 1..(i - Len(a)) |-> Hole] \o <<v>>

RECURSIVE FilterFrom(_, _, _, _)
\* arr.filter((item, index) => ...) from JS index `index` on: empty slots are
\* skipped by filter, deleted keys are dropped, and every kept item records
\* keyToIndex.set(key, index) with its index in arr
FilterFrom(arr, index, deletedSet, acc) ==
    IF index >= Len(arr) THEN acc
    ELSE LET item == arr[index + 1]
         IN IF item = Hole \/ item.key \in deletedSet
            THEN FilterFrom(arr, index + 1, deletedSet, acc)
            ELSE FilterFrom(arr, index + 1, deletedSet,
                    [datastore |-> Append(acc.datastore, item),
                     keyToIndex |-> (item.key :> index) @@ acc.keyToIndex])

RECURSIVE MergeFrom(_, _, _, _)
\* for (const item of modified) { ... } from the n-th modified item on
MergeFrom(modified, n, datastore, keyToIndex) ==
    IF n > Len(modified) THEN datastore
    ELSE LET item == modified[n]
         IN IF item.key \in DOMAIN keyToIndex
            THEN MergeFrom(modified, n + 1,
                           ArraySet(datastore, keyToIndex[item.key], item), keyToIndex)
            ELSE MergeFrom(modified, n + 1, Append(datastore, item), keyToIndex)

\* the array matchWithCurrentData(update, arr) returns, as a value
MergedItems(update, arr) ==
    LET f == FilterFrom(arr, 0, update.deleted, [datastore |-> <<>>, keyToIndex |-> <<>>])
    IN MergeFrom(update.modified, 1, f.datastore, f.keyToIndex)

\* the reference of the array that datastore names
FilterInPlace(h, arrRef) == arrRef

\* arr.filter(...) returns a newly allocated array
FilterAlloc(h, arrRef) == arrRef + 1

\* matchWithCurrentData(update, arr) on the heap: the reference it returns and the
\* heap it leaves; arrays no longer reachable from the call are dropped
matchWithCurrentData(update, h, arrRef) ==
    LET dsRef == FilterAlloc(h, arrRef)
        live == {arrRef, dsRef}
    IN [ref  |-> dsRef,
        heap |-> [r \in live |-> IF r = dsRef THEN MergedItems(update, h[arrRef])
                                 ELSE h[r]]]

\* an incremental fetch returned `update`; it is merged into the served item list
Merge ==
    /\ merges < MaxMerges
    /\ \E update \in Updates :
        LET out == matchWithCurrentData(update, heap, current)
        IN /\ heap' = out.heap
           /\ current' = out.ref
           /\ delta' = update
    /\ prevRef' = current
    /\ prev' = heap[current]
    /\ merges' = merges + 1
    /\ UNCHANGED <<transportVars, orderVars, engineVars, scriptVars, hostVars>>

MergeNext == Merge

(***************************************************************************)
(* Two deltas on disjoint keys, merged in both orders                      *)
(***************************************************************************)
TouchedKeys(d) == {d.modified[i].key : i \in 1..Len(d.modified)} \cup d.deleted

\* two incremental fetches return deltas that touch disjoint keys
ChooseDeltas ==
    /\ d1 = NoUpdate /\ d2 = NoUpdate
    /\ \E x, y \in Updates :
        /\ x # NoUpdate /\ y # NoUpdate
        /\ TouchedKeys(x) \cap TouchedKeys(y) = {}
        /\ d1' = x
        /\ d2' = y
    /\ UNCHANGED <<s0, r12, r21, transportVars, mergeVars, engineVars, scriptVars, hostVars>>

\* both orders are merged
MergeBothOrders ==
    /\ d1 # NoUpdate /\ d2 # NoUpdate
    /\ r12 = <<>> /\ r21 = <<>>
    /\ r12' = <<MergedItems(d2, MergedItems(d1, s0))>>
    /\ r21' = <<MergedItems(d1, MergedItems(d2, s0))>>
    /\ UNCHANGED <<s0, d1, d2, transportVars, mergeVars, engineVars, scriptVars, hostVars>>

OrderNext == ChooseDeltas \/ MergeBothOrders

(***************************************************************************)
(* Pagination: fetchAdditionalData (IMPROVEMENT_PLAN.md, 2.5)              *)
(***************************************************************************)
CONCURRENCY_LIMIT == 5

Min(a, b) == IF a < b THEN a ELSE b

\* the start offset counted from the page's own index, without the first page
StartOfZeroBased(j) == 100 * j

\* reqParams.set("start", `${100 * (j + 1)}`)
StartOf(j) == 100 * (j + 1)

\* the items the endpoint returns for a page request: those at the requested
\* offset (two per page stand for the hundred of a real page)
DataAt(start) == <<start, start + 1>>

RECURSIVE Flat(_)
\* [d1, d2, ...].flat()
Flat(ds) == IF ds = <<>> THEN <<>> ELSE Head(ds) \o Flat(Tail(ds))

\* the end of the batch that starts at page i, without the concurrency limit
BatchEndAll(i, nb) == nb

\* Math.min(i + CONCURRENCY_LIMIT, nbExtraCalls)
BatchEnd(i, nb) == Min(i + CONCURRENCY_LIMIT, nb)

\* the requests pushed to batch by the inner loop, in the order pushed
BatchRequests(i, nb) ==
    [k \in 1..(BatchEnd(i, nb) - i) |-> [page |-> i + k - 1, start |-> StartOf(i + k - 1)]]

\* the batch's data taken in the order the answers arrived
BatchResultsByArrival(batch, arrival) ==
    Flat([k \in 1..Len(arrival) |-> DataAt(StartOf(arrival[k]))])

\* (await Promise.all(batch)).map(r => r.data).flat(): Promise.all keeps the
\* order of the promises it was given, whatever order they settle in
BatchResults(batch, arrival) ==
    Flat([k \in 1..Len(batch) |-> DataAt(batch[k].start)])

NoError == [kind |-> "none", page |-> 0]

\* fetchAdditionalData has not been called
PagerIdle ==
    [nbExtraCalls |-> 0,
     ppc      |-> "idle",     \* "idle" | "awaiting" | "done" | "failed"
     i        |-> 0,          \* the outer loop's i
     batch    |-> <<>>,       \* the requests of the batch awaited
     requests |-> <<>>,       \* every request issued so far, in the order issued
     inflight |-> {},         \* pages whose request is on the wire
     arrival  |-> <<>>,       \* pages of the batch answered, in order of arrival
     completed |-> {},        \* every page answered so far
     failed   |-> {},         \* every page whose request failed so far
     results  |-> <<>>,       \* const results
     returned |-> <<>>,       \* what the caller received
     error    |-> NoError]    \* what the caller caught

\* the loop from its head: issue the batch at i and await it, or return results
LoopFrom(pg, i, results) ==
    IF i < pg.nbExtraCalls
    THEN [pg EXCEPT !.i = i,
                    !.results = results,
                    !.batch = BatchRequests(i, pg.nbExtraCalls),
                    !.requests = @ \o BatchRequests(i, pg.nbExtraCalls),
                    !.inflight = pg.inflight \cup {j \in 0..(pg.nbExtraCalls - 1) :
                                                      j >= i /\ j < BatchEnd(i, pg.nbExtraCalls)},
                    !.arrival = <<>>,
                    !.ppc = "awaiting"]
    ELSE [pg EXCEPT !.i = i, !.results = results, !.returned = results, !.ppc = "done"]

\* fetchAdditionalData(...) is called: it runs to its first await
CallFetch ==
    /\ pager.ppc = "idle"
    /\ pager' = LoopFrom(pager, 0, <<>>)
    /\ UNCHANGED <<transportVars, mergeVars, orderVars, scriptVars, hostVars, tagger, cache, sync>>

\* the request of page j is answered with its data
PageOk ==
    /\ \E j \in pager.inflight :
        pager' = [pager EXCEPT !.inflight = @ \ {j},
                               !.completed = @ \cup {j},
                               !.arrival = IF pager.ppc = "awaiting" THEN Append(@, j) ELSE @]
    /\ UNCHANGED <<transportVars, mergeVars, orderVars, scriptVars, hostVars, tagger, cache, sync>>

\* the request of page j fails for good: Promise.all rejects with that error
\* and the await throws it out of fetchAdditionalData
PageFail ==
    /\ \E j \in pager.inflight :
        pager' = [pager EXCEPT !.inflight = @ \ {j},
                               !.failed = @ \cup {j},
                               !.ppc = IF pager.ppc = "awaiting" THEN "failed" ELSE @,
                               !.error = IF pager.ppc = "awaiting"
                                         THEN [kind |-> "AxiosError", page |-> j] ELSE @]
    /\ UNCHANGED <<transportVars, mergeVars, orderVars, scriptVars, hostVars, tagger, cache, sync>>

\* every request of the batch is answered: the await resumes, the batch's data
\* is pushed and the loop goes on to the next batch or returns
Resume ==
    /\ pager.ppc = "awaiting"
    /\ Len(pager.arrival) = Len(pager.batch)
    /\ pager' = LoopFrom(pager, pager.i + CONCURRENCY_LIMIT,
                         pager.results \o BatchResults(pager.batch, pager.arrival))
    /\ UNCHANGED <<transportVars, mergeVars, orderVars, scriptVars, hostVars, tagger, cache, sync>>

PageNext == CallFetch \/ PageOk \/ PageFail \/ Resume

(***************************************************************************)
(* Tag index: categorizeZoteroTags (IMPROVEMENT_PLAN.md, 2.1)              *)
(***************************************************************************)
Tokens == {"AI", "ai", "ML", "ml"}

\* elem.toLowerCase() without case folding
ToLowerCaseNone(t) == t

\* elem.toLowerCase()
ToLowerCase(t) ==
    CASE t \in {"AI", "ai"} -> "ai"
      [] t \in {"ML", "ml"} -> "ml"
      [] OTHER -> t

\* the place of a token in the order of localeCompare (lower case first)
Collation(t) ==
    CASE t = "ai" -> 1
      [] t = "AI" -> 2
      [] t = "ml" -> 3
      [] OTHER    -> 4

RECURSIVE InsertDesc(_, _)
\* x put into the descending list q, after every element that does not sort below it
InsertDesc(q, x) ==
    IF q = <<>> THEN <<x>>
    ELSE IF Collation(Head(q)) >= Collation(x) THEN <<Head(q)>> \o InsertDesc(Tail(q), x)
    ELSE <<x>> \o q

RECURSIVE SortDesc(_)
\* z_data.sort((a, b) => b.localeCompare(a)): descending, stable
SortDesc(q) ==
    IF q = <<>> THEN <<>> ELSE InsertDesc(SortDesc(SubSeq(q, 1, Len(q) - 1)), q[Len(q)])

\* the source references pushed for a token (the arguments elided in the
\* source: one reference to the token's entry of tagMap)
SourceRefs(elem) == <<elem>>

RECURSIVE CategorizeFrom(_, _, _, _)
\* the for loop from the n-th element of the sorted list on
CategorizeFrom(sorted, n, tokenIndex, output) ==
    IF n > Len(sorted) THEN output
    ELSE LET elem == sorted[n]
             normalizedToken == ToLowerCase(elem)
         IN IF normalizedToken \in DOMAIN tokenIndex
            THEN CategorizeFrom(sorted, n + 1, tokenIndex,
                    [output EXCEPT ![tokenIndex[normalizedToken] + 1].zotero = @ \o SourceRefs(elem)])
            ELSE CategorizeFrom(sorted, n + 1,
                    (normalizedToken :> Len(output)) @@ tokenIndex,
                    Append(output, [token |-> normalizedToken, roam |-> <<>>,
                                    zotero |-> SourceRefs(elem)]))

\* categorizeZoteroTags has not been called
TaggerIdle ==
    [z_data |-> <<>>,      \* the array passed as z_data
     given  |-> <<>>,      \* its contents when the call was made
     called |-> FALSE,
     output |-> <<>>]

\* categorizeZoteroTags(z_data, tagMap): sorts z_data in place and builds output
CategorizeZoteroTags ==
    /\ ~tagger.called
    /\ tagger' = [tagger EXCEPT !.z_data = SortDesc(tagger.z_data),
                                !.called = TRUE,
                                !.output = CategorizeFrom(SortDesc(tagger.z_data), 1, <<>>, <<>>)]
    /\ UNCHANGED <<transportVars, mergeVars, orderVars, scriptVars, hostVars, pager, cache, sync>>

TagNext == CategorizeZoteroTags

(***************************************************************************)
(* Cache store (spec 4.5): one record per library identity                 *)
(***************************************************************************)
Identities == {"lib1", "lib2"}

\* the staleness horizon, in days
StalenessHorizon == 3

\* the snapshots a record may hold: a version and an item list
CacheSnapshots == [version : 1..2, items : {<<>>, <<"A">>}]

NoSnapshot == [version |-> 0, items |-> <<>>]

\* no record / the answer `absent`
Absent == [present |-> FALSE, snapshot |-> NoSnapshot, storedAt |-> 0]

\* read without the staleness horizon
CacheReadNoHorizon(c, id) == c.records[id]

\* read(identity): the entry, or absent when there is none or it is older
\* than the staleness horizon
CacheRead(c, id) ==
    IF c.records[id].present /\ c.now - c.records[id].storedAt <= StalenessHorizon
    THEN c.records[id]
    ELSE Absent

\* write(identity, snapshot): the record of that identity is replaced as a whole
CacheWrite(c, id, snap) ==
    [c EXCEPT !.records[id] = [present |-> TRUE, snapshot |-> snap, storedAt |-> c.now]]

\* an empty store at day 0
CacheIdle ==
    [records |-> [id \in Identities |-> Absent],
     now     |-> 0,
     last    |-> [kind |-> "none", id |-> "lib1", result |-> Absent]]   \* the last operation

\* a day passes
CacheTick ==
    /\ cache.now < MaxTime
    /\ cache' = [cache EXCEPT !.now = @ + 1, !.last.kind = "tick"]
    /\ UNCHANGED <<transportVars, mergeVars, orderVars, scriptVars, hostVars, pager, tagger, sync>>

\* write(identity, snapshot) -> ack
WriteEntry ==
    /\ \E id \in Identities, snap \in CacheSnapshots :
        cache' = [CacheWrite(cache, id, snap) EXCEPT
                      !.last = [kind |-> "write", id |-> id, result |-> Absent]]
    /\ UNCHANGED <<transportVars, mergeVars, orderVars, scriptVars, hostVars, pager, tagger, sync>>

\* read(identity) -> CacheEntry | absent
ReadEntry ==
    /\ \E id \in Identities :
        cache' = [cache EXCEPT !.last = [kind |-> "read", id |-> id,
                                         result |-> CacheRead(cache, id)]]
    /\ UNCHANGED <<transportVars, mergeVars, orderVars, scriptVars, hostVars, pager, tagger, sync>>

\* physical compaction: records older than the horizon are reclaimed
Compact ==
    /\ \E id \in Identities :
        /\ cache.records[id].present
        /\ cache.now - cache.records[id].storedAt > StalenessHorizon
        /\ cache' = [cache EXCEPT !.records[id] = Absent, !.last.kind = "compact"]
    /\ UNCHANGED <<transportVars, mergeVars, orderVars, scriptVars, hostVars, pager, tagger, sync>>

CacheNext == CacheTick \/ WriteEntry \/ ReadEntry \/ Compact

(***************************************************************************)
(* Sync coordinator (spec 4.6, 4.4, 7): one state machine per identity     *)
(***************************************************************************)
Callers == {"c1", "c2"}

States == {"Idle", "Fetching", "Merging", "Publishing", "Failed"}

\* a failure handled like a success
NextStatePublishesFailure(st, ev) ==
    CASE st = "Idle"       /\ ev = "requestSync" -> "Fetching"
      [] st = "Fetching"   /\ ev = "fetched"     -> "Merging"
      [] st = "Merging"    /\ ev = "merged"      -> "Publishing"
      [] st = "Publishing" /\ ev = "published"   -> "Idle"
      [] st = "Fetching"   /\ ev = "failed"      -> "Publishing"
      [] st = "Merging"    /\ ev = "failed"      -> "Publishing"
      [] st = "Failed"     /\ ev = "reverted"    -> "Idle"
      [] OTHER                                   -> st

\* Idle -> Fetching -> Merging -> Publishing -> Idle, with Failed reachable
\* from Fetching or Merging and reverting to Idle
NextState(st, ev) ==
    CASE st = "Idle"       /\ ev = "requestSync" -> "Fetching"
      [] st = "Fetching"   /\ ev = "fetched"     -> "Merging"
      [] st = "Merging"    /\ ev = "merged"      -> "Publishing"
      [] st = "Publishing" /\ ev = "published"   -> "Idle"
      [] st = "Fetching"   /\ ev = "failed"      -> "Failed"
      [] st = "Merging"    /\ ev = "failed"      -> "Failed"
      [] st = "Failed"     /\ ev = "reverted"    -> "Idle"
      [] OTHER                                   -> st

\* the snapshot of one generation (the items are those of the merge model)
Snap(v) == [version |-> v, items |-> <<>>]

\* a merge that keeps the version of its base
NextVersionSame(v) == v

\* every merge produces a new snapshot, one generation after its base
NextVersion(v) == v + 1

\* merge(snapshot, delta) fails with VersionConflict when delta was computed
\* against a base older than two generations behind snapshot
VersionConflict(version, base) == version - base > 2

NoCycle ==
    [full |-> FALSE, base |-> 0, refetch |-> FALSE, staged |-> 0,
     merged |-> "none", failedIn |-> "none"]

NoCall == [id |-> "lib1", status |-> "none", cycle |-> 0, version |-> 0, error |-> "none"]

SyncIdle ==
    [state    |-> [id \in Identities |-> "Idle"],
     served   |-> [id \in Identities |-> NoSnapshot],   \* what getSnapshot answers
     cycleNo  |-> [id \in Identities |-> 0],            \* fetch cycles started
     cyc      |-> [id \in Identities |-> NoCycle],
     notified |-> [id \in Identities |-> 0],            \* version last given to the subscriber
     calls    |-> [c \in Callers |-> NoCall]]

\* every caller waiting for id receives the outcome of the cycle
Settle(calls, id, status, version, error) ==
    [c \in Callers |->
        IF calls[c].status = "waiting" /\ calls[c].id = id
        THEN [calls[c] EXCEPT !.status = status, !.version = version, !.error = error]
        ELSE calls[c]]

\* a second caller starts a cycle of its own
JoinOrStartAlways(s, c, id) ==
    [s EXCEPT !.state[id] = "Fetching",
              !.cycleNo[id] = @ + 1,
              !.cyc[id] = [NoCycle EXCEPT !.full = (s.served[id] = NoSnapshot)],
              !.calls[c] = [NoCall EXCEPT !.id = id, !.status = "waiting",
                                          !.cycle = s.cycleNo[id] + 1]]

\* requestSync(id) with no fresh cache entry: join the cycle in progress, or
\* start one (incremental when there is a snapshot to merge into)
JoinOrStart(s, c, id) ==
    IF s.state[id] # "Idle"
    THEN [s EXCEPT !.calls[c] = [NoCall EXCEPT !.id = id, !.status = "waiting",
                                               !.cycle = s.cycleNo[id]]]
    ELSE [s EXCEPT !.state[id] = NextState("Idle", "requestSync"),
                   !.cycleNo[id] = @ + 1,
                   !.cyc[id] = [NoCycle EXCEPT !.full = (s.served[id] = NoSnapshot)],
                   !.calls[c] = [NoCall EXCEPT !.id = id, !.status = "waiting",
                                               !.cycle = s.cycleNo[id] + 1]]

\* a failure that publishes what the cycle had so far
FailCyclePartial(s, id) ==
    [s EXCEPT !.state[id] = NextState(s.state[id], "failed"),
              !.cyc[id].failedIn = s.state[id],
              !.served[id] = Snap(s.served[id].version + 1),
              !.notified[id] = s.served[id].version + 1]

\* Fetching or Merging -> Failed: the cycle's data is discarded
FailCycle(s, id) ==
    [s EXCEPT !.state[id] = NextState(s.state[id], "failed"),
              !.cyc[id].failedIn = s.state[id],
              !.cyc[id].staged = 0]

\* requestSync(identity): cache lookup, then a cycle if the entry is stale
RequestSync ==
    /\ \E c \in Callers, id \in Identities :
        /\ sync.calls[c].status # "waiting"
        /\ IF sync.state[id] = "Idle" /\ CacheRead(cache, id).present
           THEN sync' = [sync EXCEPT !.calls[c] =
                            [NoCall EXCEPT !.id = id, !.status = "resolved",
                                           !.version = CacheRead(cache, id).snapshot.version]]
           ELSE /\ sync.state[id] = "Idle" =>
                      sync.cycleNo[id] < MaxCycles /\ sync.served[id].version <= MaxVersion
                /\ sync' = JoinOrStart(sync, c, id)
    /\ UNCHANGED <<transportVars, mergeVars, orderVars, scriptVars, hostVars, pager, tagger, cache>>

\* the paginator returns: everything (full fetch), or a delta computed against
\* some base
FetchOk(id) ==
    /\ sync.state[id] = "Fetching"
    /\ \E b \in 1..sync.served[id].version \cup {0} :
        /\ b = 0 <=> sync.cyc[id].full
        /\ sync' = [sync EXCEPT !.state[id] = NextState("Fetching", "fetched"),
                                !.cyc[id].base = b]
    /\ UNCHANGED <<transportVars, mergeVars, orderVars, scriptVars, hostVars, pager, tagger, cache>>

\* the paginator fails (PartialFetchError, or TransportError after retries)
FetchFail(id) ==
    /\ sync.state[id] = "Fetching"
    /\ sync' = FailCycle(sync, id)
    /\ UNCHANGED <<transportVars, mergeVars, orderVars, scriptVars, hostVars, pager, tagger, cache>>

\* Delta Merger and Tag Indexer update; VersionConflict forces a full refetch
MergeCycle(id) ==
    /\ sync.state[id] = "Merging"
    /\ ~sync.cyc[id].refetch
    /\ IF ~sync.cyc[id].full /\ VersionConflict(sync.served[id].version, sync.cyc[id].base)
       THEN sync' = [sync EXCEPT !.cyc[id].refetch = TRUE, !.cyc[id].full = TRUE]
       ELSE sync' = [sync EXCEPT
                        !.state[id] = NextState("Merging", "merged"),
                        !.cyc[id].staged = NextVersion(sync.served[id].version),
                        !.cyc[id].merged = IF sync.cyc[id].full THEN "full" ELSE "delta"]
    /\ UNCHANGED <<transportVars, mergeVars, orderVars, scriptVars, hostVars, pager, tagger, cache>>

\* the full refetch after a VersionConflict returns
RefetchOk(id) ==
    /\ sync.state[id] = "Merging"
    /\ sync.cyc[id].refetch
    /\ sync' = [sync EXCEPT !.cyc[id].refetch = FALSE, !.cyc[id].base = 0]
    /\ UNCHANGED <<transportVars, mergeVars, orderVars, scriptVars, hostVars, pager, tagger, cache>>

\* the full refetch after a VersionConflict fails
RefetchFail(id) ==
    /\ sync.state[id] = "Merging"
    /\ sync.cyc[id].refetch
    /\ sync' = [FailCycle(sync, id) EXCEPT !.cyc[id].refetch = FALSE]
    /\ UNCHANGED <<transportVars, mergeVars, orderVars, scriptVars, hostVars, pager, tagger, cache>>

\* Cache Store write, then publish to getSnapshot, the subscriber and the callers
Publish(id) ==
    /\ sync.state[id] = "Publishing"
    /\ cache' = CacheWrite(cache, id, Snap(sync.cyc[id].staged))
    /\ sync' = [sync EXCEPT
                   !.state[id] = NextState("Publishing", "published"),
                   !.served[id] = Snap(sync.cyc[id].staged),
                   !.notified[id] = sync.cyc[id].staged,
                   !.calls = Settle(sync.calls, id, "resolved", sync.cyc[id].staged, "none")]
    /\ UNCHANGED <<transportVars, mergeVars, orderVars, scriptVars, hostVars, pager, tagger>>

\* Failed -> Idle: the callers receive a SyncError
Revert(id) ==
    /\ sync.state[id] = "Failed"
    /\ sync' = [sync EXCEPT
                   !.state[id] = NextState("Failed", "reverted"),
                   !.calls = Settle(sync.calls, id, "rejected", 0, "SyncError")]
    /\ UNCHANGED <<transportVars, mergeVars, orderVars, scriptVars, hostVars, pager, tagger, cache>>

\* the cached entries age past the staleness horizon
Expire ==
    /\ cache.now + StalenessHorizon + 1 <= MaxTime
    /\ cache' = [cache EXCEPT !.now = @ + StalenessHorizon + 1, !.last.kind = "tick"]
    /\ UNCHANGED <<transportVars, mergeVars, orderVars, scriptVars, hostVars, pager, tagger, sync>>

SyncNext ==
    \/ RequestSync
    \/ Expire
    \/ \E id \in Identities :
        \/ FetchOk(id)
        \/ FetchFail(id)
        \/ MergeCycle(id)
        \/ RefetchOk(id)
        \/ RefetchFail(id)
        \/ Publish(id)
        \/ Revert(id)

(***************************************************************************)
(* Parent-child views: buildChildrenIndex / identifyChildren               *)
(***************************************************************************)
\* the keys of the top-level items of the libraries
ItemKeys == {"A", "B"}

\* what a child's parentItem may hold: an item key, or a key no item has
ParentRefs == ItemKeys \cup {"X"}

Libraries == [type : {"user", "group"}, id : {"1"}]

ChildKinds == [parentItem : ParentRefs, library : Libraries]

\* the children of one list, told apart by their position in it
Children(q) == [k \in 1..Len(q) |-> [key |-> k, data |-> [parentItem |-> q[k].parentItem],
                                     library |-> q[k].library]]

\* a key made of the parent only
IndexKeyNoLibrary(parentItem, type, id) == parentItem

\* `${pdf.data.parentItem}:${pdf.library.type}s/${pdf.library.id}`
IndexKey(parentItem, type, id) == parentItem \o ":" \o type \o "s/" \o id

\* the location string of a library, as the callers of identifyChildren pass it
LocationOf(lib) == lib.type \o "s/" \o lib.id

\* for (const pdf of pdfs) { if (!map.has(key)) map.set(key, []); map.get(key).push(pdf) }
RECURSIVE ByParentFrom(_, _, _)
ByParentFrom(list, k, map) ==
    IF k > Len(list) THEN map
    ELSE LET key == IndexKey(list[k].data.parentItem, list[k].library.type, list[k].library.id)
             had == IF key \in DOMAIN map THEN map[key] ELSE <<>>
         IN ByParentFrom(list, k + 1,
                [x \in DOMAIN map \cup {key} |-> IF x = key THEN Append(had, list[k]) ELSE map[x]])

EmptyMap == [x \in {} |-> <<>>]

buildChildrenIndex(pdfs, notes) ==
    [pdfsByParent  |-> ByParentFrom(pdfs, 1, EmptyMap),
     notesByParent |-> ByParentFrom(notes, 1, EmptyMap)]

\* index.pdfsByParent.get(key) || []
GetOrEmpty(map, key) == IF key \in DOMAIN map THEN map[key] ELSE <<>>

identifyChildren(itemKey, location, index) ==
    [pdfs  |-> GetOrEmpty(index.pdfsByParent, itemKey \o ":" \o location),
     notes |-> GetOrEmpty(index.notesByParent, itemKey \o ":" \o location)]

KidsIdle ==
    [pdfs |-> <<>>, notes |-> <<>>, built |-> FALSE,
     index |-> [pdfsByParent |-> EmptyMap, notesByParent |-> EmptyMap],
     asked |-> FALSE, itemKey |-> "A", library |-> [type |-> "user", id |-> "1"],
     result |-> [pdfs |-> <<>>, notes |-> <<>>]]

BuildChildrenIndex ==
    /\ ~kids.built
    /\ kids' = [kids EXCEPT !.built = TRUE,
                            !.index = buildChildrenIndex(kids.pdfs, kids.notes)]
    /\ UNCHANGED <<transportVars, mergeVars, orderVars, engineVars, hostVars, upload, collect, annot>>

IdentifyChildren ==
    /\ kids.built
    /\ \E itemKey \in ItemKeys, lib \in Libraries :
        kids' = [kids EXCEPT !.asked = TRUE, !.itemKey = itemKey, !.library = lib,
                             !.result = identifyChildren(itemKey, LocationOf(lib), kids.index)]
    /\ UNCHANGED <<transportVars, mergeVars, orderVars, engineVars, hostVars, upload, collect, annot>>

KidsNext == BuildChildrenIndex \/ IdentifyChildren

(***************************************************************************)
(* Script: addItemsToZotero (populate)                                     *)
(***************************************************************************)
batchSize == 50

RATE_LIMIT_DELAY_MS == 1000

\* the lengths of testItems tried: around the multiples of batchSize
ItemCounts == {k \in 0..MaxItems : k % batchSize \in {0, 1, batchSize - 1}}

\* the items to upload, told apart by their position
testItems(n) == [k \in 1..n |-> k]

\* arr.slice(from, to), indices from 0
Slice(arr, from, to) ==
    [k \in 1..(Min(to, Len(arr)) - Min(from, Len(arr))) |-> arr[from + k]]

\* the write answers tried for a batch of m records: the indices 0..m-1 split
\* into success, failed and unchanged
ResponsesFor(m) ==
    {[success   |-> 0..(c[1] - 1),
      failed    |-> c[1]..(c[2] - 1),
      unchanged |-> c[2]..(m - 1)] : c \in {x \in {0, 1, m} \X {0, 1, m} : x[1] <= x[2]}}

\* the index looked up in the whole list
ShownItemGlobal(items, batch, idx) == items[idx + 1]

\* const item = batch[idx]
ShownItem(items, batch, idx) == batch[idx + 1]

\* no wait between the batches
NeedsWaitNever(i, n) == FALSE

\* if (i + batchSize < testItems.length)
NeedsWait(i, n) == i + batchSize < n

UploadIdle ==
    [n |-> 0, pc |-> "idle", i |-> 0, batch |-> <<>>,
     successCount |-> 0, failCount |-> 0,
     inflight |-> 0,       \* requests of the script on the wire
     retries  |-> 0,       \* 429/5xx answers to the current POST
     timer    |-> 0,       \* the delay of the armed setTimeout
     posts    |-> <<>>,    \* the body of every POST call, in call order
     answers  |-> <<>>,    \* the answer to every POST call
     shown    |-> <<>>,    \* the items whose titles were printed, per POST call
     events   |-> <<>>]    \* "post" and "wait", in order

\* the loop from index i: the next batch is posted, or the loop ends
Iterate(u, i) ==
    IF i < u.n
    THEN LET batch == Slice(testItems(u.n), i, i + batchSize)
         IN [u EXCEPT !.i = i, !.batch = batch, !.pc = "posting", !.inflight = 1,
                      !.retries = 0, !.timer = 0,
                      !.posts = Append(@, batch), !.events = Append(@, "post")]
    ELSE [u EXCEPT !.i = i, !.pc = "done", !.timer = 0, !.retries = 0]

\* the end of the loop body: the wait between batches, or the next iteration
AfterBatch(u) ==
    IF NeedsWait(u.i, u.n)
    THEN [u EXCEPT !.pc = "waiting", !.timer = RATE_LIMIT_DELAY_MS,
                   !.events = Append(@, "wait")]
    ELSE Iterate(u, u.i + batchSize)

\* a failed batch is forgotten
CatchBatchUncounted(u) == u

\* catch (error) { failCount += batch.length }
CatchBatch(u) == [u EXCEPT !.failCount = @ + Len(u.batch)]

UploadStart ==
    /\ upload.pc = "start"
    /\ upload' = Iterate(upload, 0)
    /\ UNCHANGED <<transportVars, mergeVars, orderVars, engineVars, hostVars, kids, collect, annot>>

\* the POST resolves with the per-index maps of the server
UploadPostOk ==
    /\ upload.pc = "posting"
    /\ \E r \in ResponsesFor(Len(upload.batch)) :
        upload' = AfterBatch([upload EXCEPT
            !.inflight = 0,
            !.successCount = @ + Cardinality(r.success),
            !.failCount = @ + Cardinality(r.failed),
            !.answers = Append(@, [kind |-> "ok", success |-> r.success,
                                   failed |-> r.failed, unchanged |-> r.unchanged]),
            !.shown = Append(@, {ShownItem(testItems(upload.n), upload.batch, idx) :
                                     idx \in r.success})])
    /\ UNCHANGED <<transportVars, mergeVars, orderVars, engineVars, hostVars, kids, collect, annot>>

\* the POST rejects (an error the interceptor does not retry)
UploadPostFail ==
    /\ upload.pc = "posting"
    /\ upload' = AfterBatch(CatchBatch([upload EXCEPT
            !.inflight = 0,
            !.answers = Append(@, [kind |-> "error", success |-> {},
                                   failed |-> {}, unchanged |-> {}]),
            !.shown = Append(@, {})]))
    /\ UNCHANGED <<transportVars, mergeVars, orderVars, engineVars, hostVars, kids, collect, annot>>

\* the POST is answered 429 or 5xx: the interceptor waits before it reissues
UploadPostRetry ==
    /\ upload.pc = "posting"
    /\ upload.retries < MaxCount
    /\ upload' = [upload EXCEPT !.pc = "backoff", !.inflight = 0, !.retries = @ + 1]
    /\ UNCHANGED <<transportVars, mergeVars, orderVars, engineVars, hostVars, kids, collect, annot>>

\* the interceptor reissues the request
UploadReissue ==
    /\ upload.pc = "backoff"
    /\ upload' = [upload EXCEPT !.pc = "posting", !.inflight = 1]
    /\ UNCHANGED <<transportVars, mergeVars, orderVars, engineVars, hostVars, kids, collect, annot>>

\* the wait between two batches is over
UploadWaitElapsed ==
    /\ upload.pc = "waiting"
    /\ upload' = Iterate(upload, upload.i + batchSize)
    /\ UNCHANGED <<transportVars, mergeVars, orderVars, engineVars, hostVars, kids, collect, annot>>

UploadNext ==
    \/ UploadStart
    \/ UploadPostOk
    \/ UploadPostFail
    \/ UploadPostRetry
    \/ UploadReissue
    \/ UploadWaitElapsed

(***************************************************************************)
(* Script: main of add-annotations                                         *)
(***************************************************************************)
\* the attachments getPDFs keeps: np distinct objects
PdfList(np) == [k \in 1..np |-> [ref |-> k, key |-> k]]

\* pdfs.indexOf(pdf), from 0; -1 when absent
IndexOf(arr, x) ==
    IF \E k \in 1..Len(arr) : arr[k] = x
    THEN (CHOOSE k \in 1..Len(arr) : arr[k] = x /\ \A j \in 1..(k - 1) : arr[j] # x) - 1
    ELSE -1

\* the annotations of one PDF
annotations(pdfKey) == [k \in 1..8 |-> [itemType |-> "annotation", parentItem |-> pdfKey]]

\* if (pdfs.indexOf(pdf) < pdfs.length - 1)
WaitsAfterPdf(pdfs, pdf) == IndexOf(pdfs, pdf) < Len(pdfs) - 1

AnnotIdle ==
    [pc |-> "idle", pdfs |-> <<>>,
     k        |-> 0,       \* position of the for-of loop in pdfs
     inflight |-> 0,       \* requests of the script on the wire
     timer    |-> 0,       \* the delay of the armed setTimeout
     posts    |-> <<>>,    \* the body of every POST call, in call order
     events   |-> <<>>]    \* "post" and "wait", in order

\* the for-of loop at position k: addAnnotationsToPDF posts, or the loop ends
AnnotIterate(a, k) ==
    IF k <= Len(a.pdfs)
    THEN [a EXCEPT !.k = k, !.pc = "posting", !.inflight = 1, !.timer = 0,
                   !.posts = Append(@, annotations(a.pdfs[k].key)),
                   !.events = Append(@, "post")]
    ELSE [a EXCEPT !.k = k, !.pc = "done", !.timer = 0]

\* main calls getPDFs
AnnotStart ==
    /\ annot.pc = "start"
    /\ annot' = [annot EXCEPT !.pc = "getting", !.inflight = 1]
    /\ UNCHANGED <<transportVars, mergeVars, orderVars, engineVars, hostVars, kids, upload, collect>>

\* getPDFs resolves; without a PDF main returns
AnnotGetOk ==
    /\ annot.pc = "getting"
    /\ \E np \in 0..MaxPdfs :
        annot' = IF np = 0
                 THEN [annot EXCEPT !.inflight = 0, !.pc = "returned"]
                 ELSE AnnotIterate([annot EXCEPT !.inflight = 0, !.pdfs = PdfList(np)], 1)
    /\ UNCHANGED <<transportVars, mergeVars, orderVars, engineVars, hostVars, kids, upload, collect>>

\* getPDFs rejects: main's catch ends the process
AnnotGetFail ==
    /\ annot.pc = "getting"
    /\ annot' = [annot EXCEPT !.inflight = 0, !.pc = "exited"]
    /\ UNCHANGED <<transportVars, mergeVars, orderVars, engineVars, hostVars, kids, upload, collect>>

\* the POST of addAnnotationsToPDF settles (an error is caught inside it)
AnnotPostSettled ==
    /\ annot.pc = "posting"
    /\ annot' = IF WaitsAfterPdf(annot.pdfs, annot.pdfs[annot.k])
                THEN [annot EXCEPT !.inflight = 0, !.pc = "waiting",
                                   !.timer = RATE_LIMIT_DELAY_MS,
                                   !.events = Append(@, "wait")]
                ELSE AnnotIterate([annot EXCEPT !.inflight = 0], annot.k + 1)
    /\ UNCHANGED <<transportVars, mergeVars, orderVars, engineVars, hostVars, kids, upload, collect>>

\* the wait between two PDFs is over
AnnotWaitElapsed ==
    /\ annot.pc = "waiting"
    /\ annot' = AnnotIterate(annot, annot.k + 1)
    /\ UNCHANGED <<transportVars, mergeVars, orderVars, engineVars, hostVars, kids, upload, collect>>

AnnotNext ==
    \/ AnnotStart
    \/ AnnotGetOk
    \/ AnnotGetFail
    \/ AnnotPostSettled
    \/ AnnotWaitElapsed

(***************************************************************************)
(* Script: main of add-collections-and-notes                               *)
(***************************************************************************)
\* params: { limit: 100 }
limit == 100

\* the collections to create
collections ==
    <<[name |-> "Machine Learning & AI", parentCollection |-> FALSE],
      [name |-> "Biology & Medicine", parentCollection |-> FALSE],
      [name |-> "Climate & Environment", parentCollection |-> FALSE],
      [name |-> "Ethics & Philosophy", parentCollection |-> FALSE],
      [name |-> "To Read", parentCollection |-> FALSE]>>

\* which titles go into which collection, in the order of Object.entries
itemCollectionMapping ==
    <<[name |-> "Machine Learning & AI",
       patterns |-> <<"Attention Is All You Need", "Deep Learning", "ImageNet Classification",
                      "Language Models are Few-Shot Learners", "Reinforcement Learning",
                      "Generative Adversarial Networks", "Playing Atari">>],
      [name |-> "Biology & Medicine", patterns |-> <<"CRISPR-Cas9">>],
      [name |-> "Climate & Environment",
       patterns |-> <<"Climate Change 2021", "Physical Science Basis">>],
      [name |-> "Ethics & Philosophy",
       patterns |-> <<"Superintelligence", "Social Dilemma of Autonomous Vehicles">>]>>

\* the keys the server gives to the created collections, by index in the POST
CollectionKeys == <<"K1", "K2", "K3", "K4", "K5">>

\* text.toLowerCase(), for the texts of the patterns and titles of the model
LowerText(t) ==
    CASE t \in {"Deep Learning", "DEEP LEARNING"} -> "deep learning"
      [] t = "Superintelligence" -> "superintelligence"
      [] t = "Attention Is All You Need" -> "attention is all you need"
      [] t = "ImageNet Classification" -> "imagenet classification"
      [] t = "Language Models are Few-Shot Learners" -> "language models are few-shot learners"
      [] t = "Reinforcement Learning" -> "reinforcement learning"
      [] t = "Generative Adversarial Networks" -> "generative adversarial networks"
      [] t = "Playing Atari" -> "playing atari"
      [] t = "CRISPR-Cas9" -> "crispr-cas9"
      [] t = "Climate Change 2021" -> "climate change 2021"
      [] t = "Physical Science Basis" -> "physical science basis"
      [] t = "Social Dilemma of Autonomous Vehicles" -> "social dilemma of autonomous vehicles"
      [] t = "Cooking" -> "cooking"
      [] OTHER -> t

\* a title is the sequence of its parts; an item without a title field has
\* defined = FALSE
Titles ==
    {[defined |-> TRUE, parts |-> <<"DEEP LEARNING">>],
     [defined |-> TRUE, parts |-> <<"Deep Learning", "Superintelligence">>],
     [defined |-> TRUE, parts |-> <<"Cooking">>],
     [defined |-> FALSE, parts |-> <<>>]}

\* the items the server may return: a title and the collections the item is in
ItemKinds == [title : Titles, collections : {<<>>, <<"K1">>, <<"K1", "K4">>}]

\* the items of one answer of getItems, with key and version
ItemsOf(q) == [k \in 1..Len(q) |-> [key |-> k, version |-> 1, data |-> q[k]]]

\* the answers of getItems tried: up to MaxFetched items of any kind, and
\* batchSize + 1 and limit items of one kind
ItemLists ==
    {ItemsOf(q) : q \in SeqsUpTo(ItemKinds, MaxFetched)}
        \cup {ItemsOf([k \in 1..n |-> kind]) : n \in {batchSize + 1, limit}, kind \in ItemKinds}

\* itemTitle.toLowerCase().includes(pattern.toLowerCase())
Includes(title, pattern) ==
    \E k \in 1..Len(title.parts) : LowerText(title.parts[k]) = LowerText(pattern)

\* titlePatterns.some(pattern => ...)
Matches(title, patterns) == \E k \in 1..Len(patterns) : Includes(title, patterns[k])

\* an item is never taken to be in a collection already
AlreadyInNever(currentCollections, collectionKey) == FALSE

\* currentCollections.includes(collectionKey)
AlreadyIn(currentCollections, collectionKey) ==
    \E k \in 1..Len(currentCollections) : currentCollections[k] = collectionKey

\* the updates pushed for one item: one per mapped collection that was
\* created, matches the title and does not hold the item yet
UpdatesOf(item, collectionMap) ==
    LET hits == SelectSeq(itemCollectionMapping,
                    LAMBDA e : /\ e.name \in DOMAIN collectionMap
                               /\ Matches(item.data.title, e.patterns)
                               /\ ~AlreadyIn(item.data.collections, collectionMap[e.name]))
    IN [k \in 1..Len(hits) |->
            [key |-> item.key, version |-> item.version,
             collections |-> Append(item.data.collections, collectionMap[hits[k].name])]]

\* the loop over the items
OrganizeUpdates(items, collectionMap) ==
    Flat([k \in 1..Len(items) |-> UpdatesOf(items[k], collectionMap)])

\* itemTitle.toLowerCase() on an item without title, reached when a mapped
\* collection was created: a TypeError outside any try
OrganizeThrows(items, collectionMap) ==
    /\ \E k \in 1..Len(itemCollectionMapping) : itemCollectionMapping[k].name \in DOMAIN collectionMap
    /\ \E k \in 1..Len(items) : ~items[k].data.title.defined

\* the answers to the POST of the collections that are tried: the indices
\* created, and whether `successful` comes with them
CreateAnswers ==
    [success : {{}, {0}, {4}, {0, 3}, 0..4}, successful : BOOLEAN]

\* collectionMap[collection.data.name] = collectionKey for each success index;
\* a missing successful[idx] throws inside the try: {}
CollectionMapOf(answer) ==
    IF answer.successful
    THEN [name \in {collections[idx + 1].name : idx \in answer.success} |->
            CollectionKeys[(CHOOSE idx \in answer.success : collections[idx + 1].name = name) + 1]]
    ELSE [name \in {} |-> ""]

\* const numNotes = Math.random() > 0.5 ? 2 : 1, for each of the k items
NumNotesChoices(k) ==
    IF k <= 2 THEN [1..k -> {1, 2}] ELSE {[j \in 1..k |-> c] : c \in {1, 2}}

\* the notes pushed for items.slice(0, 5)
NotesToAdd(items, numNotes) ==
    Flat([j \in 1..Len(numNotes) |->
            [i \in 1..numNotes[j] |-> [itemType |-> "note", parentItem |-> items[j].key]]])

standaloneNotes == <<[itemType |-> "note"], [itemType |-> "note"]>>

CollectIdle ==
    [pc |-> "idle",
     step          |-> 0,                     \* the step of main that runs or was last run
     collectionMap |-> [name \in {} |-> ""],
     items         |-> <<>>,
     updates       |-> <<>>,                  \* the updates of organizeItemsIntoCollections
     inflight      |-> 0,                     \* requests of the script on the wire
     timer         |-> 0,                     \* the delay of the armed setTimeout
     posts         |-> <<>>,                  \* step and body of every POST call
     events        |-> <<>>]                  \* the steps started and "wait", in order

\* await new Promise(resolve => setTimeout(resolve, RATE_LIMIT_DELAY_MS))
WaitAfter(c) ==
    [c EXCEPT !.pc = "waiting", !.inflight = 0, !.timer = RATE_LIMIT_DELAY_MS,
              !.events = Append(@, "wait")]

\* a POST of main's step is put on the wire
PostOf(c, step, name, body) ==
    [c EXCEPT !.pc = "posting", !.step = step, !.inflight = 1, !.timer = 0,
              !.posts = Append(@, [step |-> name, body |-> body]),
              !.events = Append(@, name)]

\* step 5: addStandaloneNotes
Step5(c) == PostOf(c, 5, "addStandaloneNotes", standaloneNotes)

\* step 4: addNotesToItems, if there are items
Step4(c, numNotes) ==
    IF Len(c.items) > 0
    THEN PostOf(c, 4, "addNotesToItems", NotesToAdd(c.items, numNotes))
    ELSE Step5(c)

\* if (Object.keys(collectionMap).length > 0 && items.length > 0)
Step3Guard(c) == DOMAIN c.collectionMap # {} /\ Len(c.items) > 0

\* step 3: organizeItemsIntoCollections, if something was created and fetched;
\* without updates it returns before any POST
Step3(c, numNotes) ==
    IF Step3Guard(c)
    THEN IF OrganizeThrows(c.items, c.collectionMap)
         THEN [c EXCEPT !.pc = "crashed", !.step = 3, !.timer = 0,
                        !.events = Append(@, "organizeItemsIntoCollections")]
         ELSE LET updates == OrganizeUpdates(c.items, c.collectionMap)
                  ran == [c EXCEPT !.updates = updates, !.step = 3,
                                   !.events = Append(@, "organizeItemsIntoCollections")]
              IN IF Len(updates) = 0
                 THEN WaitAfter(ran)
                 ELSE [ran EXCEPT !.pc = "posting", !.inflight = 1, !.timer = 0,
                                  !.posts = Append(@, [step |-> "organizeItemsIntoCollections",
                                                       body |-> updates])]
    ELSE Step4(c, numNotes)

\* main calls createCollections
CollectStart ==
    /\ collect.pc = "start"
    /\ collect' = [PostOf(collect, 1, "createCollections", collections) EXCEPT !.pc = "creating"]
    /\ UNCHANGED <<transportVars, mergeVars, orderVars, engineVars, hostVars, kids, upload, annot>>

\* the POST of the collections settles: the map of the created ones, or {}
\* after an error
CreateCollectionsSettled ==
    /\ collect.pc = "creating"
    /\ \E answer \in CreateAnswers, rejected \in BOOLEAN :
        collect' = WaitAfter([collect EXCEPT !.collectionMap =
                        IF rejected THEN [name \in {} |-> ""] ELSE CollectionMapOf(answer)])
    /\ UNCHANGED <<transportVars, mergeVars, orderVars, engineVars, hostVars, kids, upload, annot>>

\* the GET of getItems settles: the items, or [] after an error
GetItemsSettled ==
    /\ collect.pc = "getting"
    /\ \E items \in ItemLists :
        collect' = WaitAfter([collect EXCEPT !.items = items])
    /\ UNCHANGED <<transportVars, mergeVars, orderVars, engineVars, hostVars, kids, upload, annot>>

\* the POST of step 3, 4 or 5 settles (an error is caught in the step)
PostSettled ==
    /\ collect.pc = "posting"
    /\ collect' = IF collect.step = 5
                  THEN [collect EXCEPT !.pc = "done", !.inflight = 0]
                  ELSE WaitAfter(collect)
    /\ UNCHANGED <<transportVars, mergeVars, orderVars, engineVars, hostVars, kids, upload, annot>>

\* the wait after a step is over: main goes on with the next step
CollectWaitElapsed ==
    /\ collect.pc = "waiting"
    /\ \E numNotes \in NumNotesChoices(Min(Len(collect.items), 5)) :
        collect' =
            CASE collect.step = 1 ->
                    [collect EXCEPT !.pc = "getting", !.step = 2, !.inflight = 1, !.timer = 0,
                                    !.events = Append(@, "getItems")]
              [] collect.step = 2 -> Step3([collect EXCEPT !.timer = 0], numNotes)
              [] collect.step = 3 -> Step4([collect EXCEPT !.timer = 0], numNotes)
              [] OTHER            -> Step5([collect EXCEPT !.timer = 0])
    /\ UNCHANGED <<transportVars, mergeVars, orderVars, engineVars, hostVars, kids, upload, annot>>

CollectNext ==
    \/ CollectStart
    \/ CreateCollectionsSettled
    \/ GetItemsSettled
    \/ PostSettled
    \/ CollectWaitElapsed

(***************************************************************************)
(* Script start: loadEnv, the credentials check, the first request         *)
(***************************************************************************)
Scripts == {"populate", "checkCitekeys", "add-collections-and-notes", "add-annotations"}

\* env[name] for a name the file does not set
Undefined == "<undefined>"

\* what loadEnv yields for a name: undefined without a line for it, "" for a
\* line without a value, the trimmed value otherwise
EnvValues == {Undefined, "", "v"}

\* the .env file next to the scripts
EnvFiles == [readable : BOOLEAN, ZOTORO_USER : EnvValues, ZOTORO_API_KEY : EnvValues]

\* JS truthiness of a string or undefined
IsSet(v) == v \notin {Undefined, ""}

\* `${v}` in a template string
Interpolated(v) == IF v = Undefined THEN "undefined" ELSE v

\* a script whose loadEnv catches a read error itself
CatchesReadError(script) == script # "add-annotations"

\* the scripts with `if (!ZOTERO_USER_ID || !ZOTERO_API_KEY) process.exit(1)`
\* between loadEnv and axios.create
HasCredentialsCheck(script) == script # "add-annotations"

\* the first request the script's entry point sends
FirstRequestOf(script, env) ==
    CASE script = "populate" ->
            [method |-> "POST", url |-> "users/" \o Interpolated(env.ZOTORO_USER) \o "/items"]
      [] script = "checkCitekeys" ->
            [method |-> "GET",
             url |-> "https://api.zotero.org/users/" \o Interpolated(env.ZOTORO_USER) \o "/items"]
      [] script = "add-collections-and-notes" ->
            [method |-> "POST", url |-> "users/" \o Interpolated(env.ZOTORO_USER) \o "/collections"]
      [] OTHER ->
            [method |-> "GET", url |-> "users/" \o Interpolated(env.ZOTORO_USER) \o "/items"]

NoEnv == [ZOTORO_USER |-> Undefined, ZOTORO_API_KEY |-> Undefined]

\* no script has been started
BootIdle ==
    [script   |-> "none",
     file     |-> [readable |-> FALSE, ZOTORO_USER |-> Undefined, ZOTORO_API_KEY |-> Undefined],
     bpc      |-> "idle",   \* "idle" | "start" | "loaded" | "checked" | "requested" | "exited"
     env      |-> NoEnv,    \* const env = loadEnv()
     requests |-> <<>>,     \* the HTTP requests sent so far
     exitCode |-> 0,        \* the status of process.exit
     reported |-> ""]       \* what console.error printed before the exit

\* const env = loadEnv(): the file is read and parsed; a read error is caught
\* and ends the process with status 1, or, uncaught, ends the module load
LoadEnv ==
    /\ boot.bpc = "start"
    /\ boot' = IF boot.file.readable
               THEN [boot EXCEPT !.bpc = "loaded",
                                 !.env = [ZOTORO_USER |-> boot.file.ZOTORO_USER,
                                          ZOTORO_API_KEY |-> boot.file.ZOTORO_API_KEY]]
               ELSE [boot EXCEPT !.bpc = "exited",
                                 !.exitCode = 1,
                                 !.reported = IF CatchesReadError(boot.script)
                                              THEN "Error loading .env file"
                                              ELSE "uncaught ENOENT"]
    /\ UNCHANGED <<transportVars, mergeVars, orderVars, engineVars, scriptVars, callout>>

\* if (!ZOTERO_USER_ID || !ZOTERO_API_KEY) { console.error(...); process.exit(1) }
CheckCredentials ==
    /\ boot.bpc = "loaded"
    /\ HasCredentialsCheck(boot.script)
    /\ boot' = IF ~IsSet(boot.env.ZOTORO_USER) \/ ~IsSet(boot.env.ZOTORO_API_KEY)
               THEN [boot EXCEPT !.bpc = "exited",
                                 !.exitCode = 1,
                                 !.reported = "Missing ZOTORO_USER or ZOTORO_API_KEY in .env file"]
               ELSE [boot EXCEPT !.bpc = "checked"]
    /\ UNCHANGED <<transportVars, mergeVars, orderVars, engineVars, scriptVars, callout>>

\* axios.create(...) and the call of the entry point at the end of the module,
\* which runs to its first request
RunEntryPoint ==
    /\ \/ boot.bpc = "checked"
       \/ boot.bpc = "loaded" /\ ~HasCredentialsCheck(boot.script)
    /\ boot' = [boot EXCEPT !.bpc = "requested",
                            !.requests = Append(@, FirstRequestOf(boot.script, boot.env))]
    /\ UNCHANGED <<transportVars, mergeVars, orderVars, engineVars, scriptVars, callout>>

BootNext == LoadEnv \/ CheckCredentials \/ RunEntryPoint

(***************************************************************************)
(* Error display: ErrorCallout (components/Errors/ErrorCallout.tsx)        *)
(***************************************************************************)
\* a prop that was not passed
NotPassed == "<undefined>"

\* error.response: absent, or with a status
ErrorResponses ==
    {[present |-> FALSE, status |-> 0]}
        \cup {[present |-> TRUE, status |-> st] : st \in {200, 403, 404, 429, 500, 503}}

\* the errors handed to the component
Errors ==
    [name : {"AxiosError", "TypeError"}, message : {"Request failed"},
     isAxiosError : BOOLEAN, response : ErrorResponses]

\* the props of the component
Props == [buttonText : {NotPassed, "Retry"}, error : Errors, resetErrorBoundary : {NotPassed, "reset"}]

\* error.name === "AxiosError" || error.isAxiosError
IsAxiosError(error) == error.name = "AxiosError" \/ error.isAxiosError

\* error.response?.status === code
StatusIs(error, code) == error.response.present /\ error.response.status = code

\* status >= 500, false for an undefined status
StatusAtLeast(error, code) == error.response.present /\ error.response.status >= code

\* the title and message, with the connectivity looked at before the status
FriendlyOfflineFirst(error, onLine) ==
    IF IsAxiosError(error)
    THEN IF ~onLine
         THEN [title |-> "No Internet Connection",
               message |-> "Please check your internet connection and try again."]
         ELSE IF StatusIs(error, 404)
         THEN [title |-> "Not Found",
               message |-> "This item could not be found in the external database. It may not have been indexed yet or the identifier may be incorrect."]
         ELSE IF StatusIs(error, 403)
         THEN [title |-> "Access Denied",
               message |-> "Unable to access this resource. You may need to check your API credentials."]
         ELSE IF StatusAtLeast(error, 500)
         THEN [title |-> "Server Error",
               message |-> "The external service is experiencing issues. Please try again later."]
         ELSE [title |-> error.name, message |-> error.message]
    ELSE [title |-> error.name, message |-> error.message]

\* let title = error.name; let message = error.message; if (isAxiosError) {...}
Friendly(error, onLine) ==
    IF IsAxiosError(error)
    THEN IF StatusIs(error, 404)
         THEN [title |-> "Not Found",
               message |-> "This item could not be found in the external database. It may not have been indexed yet or the identifier may be incorrect."]
         ELSE IF StatusIs(error, 403)
         THEN [title |-> "Access Denied",
               message |-> "Unable to access this resource. You may need to check your API credentials."]
         ELSE IF StatusAtLeast(error, 500)
         THEN [title |-> "Server Error",
               message |-> "The external service is experiencing issues. Please try again later."]
         ELSE IF ~onLine
         THEN [title |-> "No Internet Connection",
               message |-> "Please check your internet connection and try again."]
         ELSE [title |-> error.name, message |-> error.message]
    ELSE [title |-> error.name, message |-> error.message]

\* buttonText = "Go back"
ButtonTextOf(props) == IF props.buttonText = NotPassed THEN "Go back" ELSE props.buttonText

\* {resetErrorBoundary !== undefined && <Button ... onClick={resetErrorBoundary} text={buttonText} />}
ButtonOf(props) ==
    IF props.resetErrorBoundary # NotPassed
    THEN <<[onClick |-> props.resetErrorBoundary, text |-> ButtonTextOf(props)]>>
    ELSE <<>>

\* the element the component returns
ErrorCallout(props, onLine) ==
    [title   |-> Friendly(props.error, onLine).title,
     message |-> Friendly(props.error, onLine).message,
     buttons |-> ButtonOf(props)]

NoElement == [title |-> "", message |-> "", buttons |-> <<>>]

NoProps ==
    [buttonText |-> NotPassed,
     error |-> [name |-> "", message |-> "", isAxiosError |-> FALSE,
                response |-> [present |-> FALSE, status |-> 0]],
     resetErrorBoundary |-> NotPassed]

\* the component has not been rendered
CalloutIdle ==
    [onLine   |-> TRUE,       \* navigator.onLine
     rendered |-> FALSE,
     props    |-> NoProps,    \* the props of the last render
     sawOnLine |-> TRUE,      \* navigator.onLine at the last render
     element  |-> NoElement]  \* what the last render returned

\* the component is rendered with some props
Render ==
    /\ \E props \in Props :
        callout' = [callout EXCEPT !.rendered = TRUE,
                                   !.props = props,
                                   !.sawOnLine = callout.onLine,
                                   !.element = ErrorCallout(props, callout.onLine)]
    /\ UNCHANGED <<transportVars, mergeVars, orderVars, engineVars, scriptVars, boot>>

\* the browser goes offline or online; nothing is rendered anew
ConnectivityChange ==
    /\ callout' = [callout EXCEPT !.onLine = ~callout.onLine]
    /\ UNCHANGED <<transportVars, mergeVars, orderVars, engineVars, scriptVars, boot>>

CalloutNext == Render \/ ConnectivityChange

(***************************************************************************)
(* Specifications                                                          *)
(***************************************************************************)
\* no request has been sent; the merge and order parts are not exercised
TransportInit ==
    /\ op = "none"
    /\ pc = "idle"
    /\ config = NoConfig
    /\ sent = NoConfig
    /\ resp = NoResp
    /\ delayMs = 0
    /\ elapsed = 0
    /\ attempts = 0
    /\ failures = 0
    /\ outcome = NoOutcome
    /\ heap = [r \in {1} |-> <<>>]
    /\ current = 1
    /\ prevRef = 1
    /\ prev = <<>>
    /\ delta = NoUpdate
    /\ merges = 0
    /\ s0 = <<>>
    /\ d1 = NoUpdate
    /\ d2 = NoUpdate
    /\ r12 = <<>>
    /\ r21 = <<>>
    /\ kids = KidsIdle
    /\ upload = UploadIdle
    /\ collect = CollectIdle
    /\ annot = AnnotIdle
    /\ boot = BootIdle
    /\ callout = CalloutIdle
    /\ pager = PagerIdle
    /\ tagger = TaggerIdle
    /\ cache = CacheIdle
    /\ sync = SyncIdle

TransportSpec == TransportInit /\ [][TransportNext]_vars

\* an armed timer fires: time passes and the setTimeout callback is run
TransportFairSpec == TransportSpec /\ WF_vars(Tick) /\ WF_vars(Reissue)

\* the served item list is some snapshot with unique keys, held as array 1
MergeInit ==
    /\ op = "none"
    /\ pc = "idle"
    /\ config = NoConfig
    /\ sent = NoConfig
    /\ resp = NoResp
    /\ delayMs = 0
    /\ elapsed = 0
    /\ attempts = 0
    /\ failures = 0
    /\ outcome = NoOutcome
    /\ \E s \in Snapshots : heap = [r \in {1} |-> s] /\ prev = s
    /\ current = 1
    /\ prevRef = 1
    /\ delta = NoUpdate
    /\ merges = 0
    /\ s0 = <<>>
    /\ d1 = NoUpdate
    /\ d2 = NoUpdate
    /\ r12 = <<>>
    /\ r21 = <<>>
    /\ kids = KidsIdle
    /\ upload = UploadIdle
    /\ collect = CollectIdle
    /\ annot = AnnotIdle
    /\ boot = BootIdle
    /\ callout = CalloutIdle
    /\ pager = PagerIdle
    /\ tagger = TaggerIdle
    /\ cache = CacheIdle
    /\ sync = SyncIdle

MergeSpec == MergeInit /\ [][MergeNext]_vars

\* some snapshot with unique keys, no delta fetched yet
OrderInit ==
    /\ op = "none"
    /\ pc = "idle"
    /\ config = NoConfig
    /\ sent = NoConfig
    /\ resp = NoResp
    /\ delayMs = 0
    /\ elapsed = 0
    /\ attempts = 0
    /\ failures = 0
    /\ outcome = NoOutcome
    /\ heap = [r \in {1} |-> <<>>]
    /\ current = 1
    /\ prevRef = 1
    /\ prev = <<>>
    /\ delta = NoUpdate
    /\ merges = 0
    /\ s0 \in Snapshots
    /\ d1 = NoUpdate
    /\ d2 = NoUpdate
    /\ r12 = <<>>
    /\ r21 = <<>>
    /\ kids = KidsIdle
    /\ upload = UploadIdle
    /\ collect = CollectIdle
    /\ annot = AnnotIdle
    /\ boot = BootIdle
    /\ callout = CalloutIdle
    /\ pager = PagerIdle
    /\ tagger = TaggerIdle
    /\ cache = CacheIdle
    /\ sync = SyncIdle

OrderSpec == OrderInit /\ [][OrderNext]_vars

\* a collection with up to MaxPages remaining pages
PageInit ==
    /\ op = "none"
    /\ pc = "idle"
    /\ config = NoConfig
    /\ sent = NoConfig
    /\ resp = NoResp
    /\ delayMs = 0
    /\ elapsed = 0
    /\ attempts = 0
    /\ failures = 0
    /\ outcome = NoOutcome
    /\ heap = [r \in {1} |-> <<>>]
    /\ current = 1
    /\ prevRef = 1
    /\ prev = <<>>
    /\ delta = NoUpdate
    /\ merges = 0
    /\ s0 = <<>>
    /\ d1 = NoUpdate
    /\ d2 = NoUpdate
    /\ r12 = <<>>
    /\ r21 = <<>>
    /\ kids = KidsIdle
    /\ upload = UploadIdle
    /\ collect = CollectIdle
    /\ annot = AnnotIdle
    /\ boot = BootIdle
    /\ callout = CalloutIdle
    /\ pager \in {[PagerIdle EXCEPT !.nbExtraCalls = n] : n \in 0..MaxPages}
    /\ tagger = TaggerIdle
    /\ cache = CacheIdle
    /\ sync = SyncIdle

PageSpec == PageInit /\ [][PageNext]_vars

\* any list of up to MaxTokens tokens
TagInit ==
    /\ op = "none"
    /\ pc = "idle"
    /\ config = NoConfig
    /\ sent = NoConfig
    /\ resp = NoResp
    /\ delayMs = 0
    /\ elapsed = 0
    /\ attempts = 0
    /\ failures = 0
    /\ outcome = NoOutcome
    /\ heap = [r \in {1} |-> <<>>]
    /\ current = 1
    /\ prevRef = 1
    /\ prev = <<>>
    /\ delta = NoUpdate
    /\ merges = 0
    /\ s0 = <<>>
    /\ d1 = NoUpdate
    /\ d2 = NoUpdate
    /\ r12 = <<>>
    /\ r21 = <<>>
    /\ kids = KidsIdle
    /\ upload = UploadIdle
    /\ collect = CollectIdle
    /\ annot = AnnotIdle
    /\ boot = BootIdle
    /\ callout = CalloutIdle
    /\ pager = PagerIdle
    /\ tagger \in {[TaggerIdle EXCEPT !.z_data = q, !.given = q] : q \in SeqsUpTo(Tokens, MaxTokens)}
    /\ cache = CacheIdle
    /\ sync = SyncIdle

TagSpec == TagInit /\ [][TagNext]_vars

\* an empty cache store
CacheInit ==
    /\ op = "none"
    /\ pc = "idle"
    /\ config = NoConfig
    /\ sent = NoConfig
    /\ resp = NoResp
    /\ delayMs = 0
    /\ elapsed = 0
    /\ attempts = 0
    /\ failures = 0
    /\ outcome = NoOutcome
    /\ heap = [r \in {1} |-> <<>>]
    /\ current = 1
    /\ prevRef = 1
    /\ prev = <<>>
    /\ delta = NoUpdate
    /\ merges = 0
    /\ s0 = <<>>
    /\ d1 = NoUpdate
    /\ d2 = NoUpdate
    /\ r12 = <<>>
    /\ r21 = <<>>
    /\ kids = KidsIdle
    /\ upload = UploadIdle
    /\ collect = CollectIdle
    /\ annot = AnnotIdle
    /\ boot = BootIdle
    /\ callout = CalloutIdle
    /\ pager = PagerIdle
    /\ tagger = TaggerIdle
    /\ cache = CacheIdle
    /\ sync = SyncIdle

CacheSpec == CacheInit /\ [][CacheNext]_vars

\* the persisted store holds, per identity, nothing or a snapshot (of generation
\* MaxVersion) stored today;
\* the coordinator serves what the store holds
SyncInit ==
    /\ op = "none"
    /\ pc = "idle"
    /\ config = NoConfig
    /\ sent = NoConfig
    /\ resp = NoResp
    /\ delayMs = 0
    /\ elapsed = 0
    /\ attempts = 0
    /\ failures = 0
    /\ outcome = NoOutcome
    /\ heap = [r \in {1} |-> <<>>]
    /\ current = 1
    /\ prevRef = 1
    /\ prev = <<>>
    /\ delta = NoUpdate
    /\ merges = 0
    /\ s0 = <<>>
    /\ d1 = NoUpdate
    /\ d2 = NoUpdate
    /\ r12 = <<>>
    /\ r21 = <<>>
    /\ kids = KidsIdle
    /\ upload = UploadIdle
    /\ collect = CollectIdle
    /\ annot = AnnotIdle
    /\ boot = BootIdle
    /\ callout = CalloutIdle
    /\ pager = PagerIdle
    /\ tagger = TaggerIdle
    /\ \E v \in [Identities -> {0, MaxVersion}] :
        /\ cache = [CacheIdle EXCEPT !.records =
                       [id \in Identities |->
                           IF v[id] = 0 THEN Absent
                           ELSE [present |-> TRUE, snapshot |-> Snap(v[id]), storedAt |-> 0]]]
        /\ sync = [SyncIdle EXCEPT
                       !.served = [id \in Identities |->
                                      IF v[id] = 0 THEN NoSnapshot ELSE Snap(v[id])],
                       !.notified = v]

SyncSpec == SyncInit /\ [][SyncNext]_vars

\* every transport call of a cycle returns, and the coordinator keeps going
SyncFairSpec ==
    /\ SyncSpec
    /\ \A id \in Identities :
        /\ WF_vars(FetchOk(id) \/ FetchFail(id))
        /\ WF_vars(RefetchOk(id) \/ RefetchFail(id))
        /\ WF_vars(MergeCycle(id))
        /\ WF_vars(Publish(id))
        /\ WF_vars(Revert(id))

\* any attachments and notes, the index not yet built
KidsInit ==
    /\ op = "none"
    /\ pc = "idle"
    /\ config = NoConfig
    /\ sent = NoConfig
    /\ resp = NoResp
    /\ delayMs = 0
    /\ elapsed = 0
    /\ attempts = 0
    /\ failures = 0
    /\ outcome = NoOutcome
    /\ heap = [r \in {1} |-> <<>>]
    /\ current = 1
    /\ prevRef = 1
    /\ prev = <<>>
    /\ delta = NoUpdate
    /\ merges = 0
    /\ s0 = <<>>
    /\ d1 = NoUpdate
    /\ d2 = NoUpdate
    /\ r12 = <<>>
    /\ r21 = <<>>
    /\ kids \in {[KidsIdle EXCEPT !.pdfs = Children(p), !.notes = Children(q)] :
                    p \in SeqsUpTo(ChildKinds, MaxPdfs), q \in SeqsUpTo(ChildKinds, MaxNotes)}
    /\ upload = UploadIdle
    /\ collect = CollectIdle
    /\ annot = AnnotIdle
    /\ boot = BootIdle
    /\ callout = CalloutIdle
    /\ pager = PagerIdle
    /\ tagger = TaggerIdle
    /\ cache = CacheIdle
    /\ sync = SyncIdle

KidsSpec == KidsInit /\ [][KidsNext]_vars

\* one of the scripts is started
ScriptInit ==
    /\ op = "none"
    /\ pc = "idle"
    /\ config = NoConfig
    /\ sent = NoConfig
    /\ resp = NoResp
    /\ delayMs = 0
    /\ elapsed = 0
    /\ attempts = 0
    /\ failures = 0
    /\ outcome = NoOutcome
    /\ heap = [r \in {1} |-> <<>>]
    /\ current = 1
    /\ prevRef = 1
    /\ prev = <<>>
    /\ delta = NoUpdate
    /\ merges = 0
    /\ s0 = <<>>
    /\ d1 = NoUpdate
    /\ d2 = NoUpdate
    /\ r12 = <<>>
    /\ r21 = <<>>
    /\ kids = KidsIdle
    /\ \/ /\ upload \in {[UploadIdle EXCEPT !.pc = "start", !.n = n] : n \in ItemCounts}
          /\ collect = CollectIdle
          /\ annot = AnnotIdle
       \/ /\ upload = UploadIdle
          /\ collect = CollectIdle
          /\ annot = [AnnotIdle EXCEPT !.pc = "start"]
       \/ /\ upload = UploadIdle
          /\ collect = [CollectIdle EXCEPT !.pc = "start"]
          /\ annot = AnnotIdle
    /\ boot = BootIdle
    /\ callout = CalloutIdle
    /\ pager = PagerIdle
    /\ tagger = TaggerIdle
    /\ cache = CacheIdle
    /\ sync = SyncIdle

ScriptNext == UploadNext \/ AnnotNext \/ CollectNext

ScriptSpec == ScriptInit /\ [][ScriptNext]_vars

\* one of the scripts is started next to some .env file
BootInit ==
    /\ op = "none"
    /\ pc = "idle"
    /\ config = NoConfig
    /\ sent = NoConfig
    /\ resp = NoResp
    /\ delayMs = 0
    /\ elapsed = 0
    /\ attempts = 0
    /\ failures = 0
    /\ outcome = NoOutcome
    /\ heap = [r \in {1} |-> <<>>]
    /\ current = 1
    /\ prevRef = 1
    /\ prev = <<>>
    /\ delta = NoUpdate
    /\ merges = 0
    /\ s0 = <<>>
    /\ d1 = NoUpdate
    /\ d2 = NoUpdate
    /\ r12 = <<>>
    /\ r21 = <<>>
    /\ kids = KidsIdle
    /\ upload = UploadIdle
    /\ collect = CollectIdle
    /\ annot = AnnotIdle
    /\ boot \in {[BootIdle EXCEPT !.script = sc, !.file = f, !.bpc = "start"] :
                    sc \in Scripts, f \in EnvFiles}
    /\ callout = CalloutIdle
    /\ pager = PagerIdle
    /\ tagger = TaggerIdle
    /\ cache = CacheIdle
    /\ sync = SyncIdle

BootSpec == BootInit /\ [][BootNext]_vars

\* nothing rendered yet, the browser online or offline
CalloutInit ==
    /\ op = "none"
    /\ pc = "idle"
    /\ config = NoConfig
    /\ sent = NoConfig
    /\ resp = NoResp
    /\ delayMs = 0
    /\ elapsed = 0
    /\ attempts = 0
    /\ failures = 0
    /\ outcome = NoOutcome
    /\ heap = [r \in {1} |-> <<>>]
    /\ current = 1
    /\ prevRef = 1
    /\ prev = <<>>
    /\ delta = NoUpdate
    /\ merges = 0
    /\ s0 = <<>>
    /\ d1 = NoUpdate
    /\ d2 = NoUpdate
    /\ r12 = <<>>
    /\ r21 = <<>>
    /\ kids = KidsIdle
    /\ upload = UploadIdle
    /\ collect = CollectIdle
    /\ annot = AnnotIdle
    /\ boot = BootIdle
    /\ callout \in {[CalloutIdle EXCEPT !.onLine = o] : o \in BOOLEAN}
    /\ pager = PagerIdle
    /\ tagger = TaggerIdle
    /\ cache = CacheIdle
    /\ sync = SyncIdle

CalloutSpec == CalloutInit /\ [][CalloutNext]_vars

(***************************************************************************)
(* Properties of the transport                                             *)
(***************************************************************************)
Sat(n) == IF n > MaxCount THEN MaxCount ELSE n

Intercepted == op # "none" /\ HasInterceptor(ClientOf(op))

\* C1: on a client that carries the retry interceptor, a 429/5xx answer never
\* reaches the awaiting operation: the interceptor suspends and then puts the
\* identical request config on the wire again, one request per failure; when an
\* attempt succeeds the operation observes that attempt's response and no error.
C1_RetryRecovers ==
    Intercepted =>
        /\ sent = config
        /\ pc = "waiting" => (Retryable(resp) /\ attempts = failures /\ outcome = NoOutcome)
        /\ pc \in {"inflight", "resolved", "rejected"} => attempts = Sat(failures + 1)
        /\ Retryable(resp) => (pc \in {"waiting", "inflight"} /\ outcome = NoOutcome)
        /\ pc = "resolved" =>
              /\ ValidateStatus(resp.status)
              /\ outcome = [kind |-> "response", status |-> resp.status]

\* a send that failed twice with 429/5xx and then resolved
C1_Witness ==
    /\ Intercepted
    /\ pc = "resolved"
    /\ failures = 2
    /\ attempts = 3
    /\ outcome.kind = "response"

\* the seconds a numeric header value states
HintSeconds(v) == IF v = "2" THEN 2 ELSE 0

NumericHint(h, name) == name \in DOMAIN h /\ h[name] \in {"0", "2"}

\* C2: the delay armed for a retry is the retry-after header in seconds when
\* the 429/5xx answer carries one, else the backoff header in seconds when it
\* carries that one, and 5 seconds when it carries neither; the request is not
\* re-issued before that delay has elapsed.
C2_WaitIsHint ==
    (Intercepted /\ Retryable(resp)) =>
        /\ NumericHint(resp.headers, "retry-after") =>
              delayMs = 1000 * HintSeconds(resp.headers["retry-after"])
        /\ ("retry-after" \notin DOMAIN resp.headers /\ NumericHint(resp.headers, "backoff")) =>
              delayMs = 1000 * HintSeconds(resp.headers["backoff"])
        /\ DOMAIN resp.headers = {} => delayMs = 5000
        /\ pc = "inflight" => elapsed >= delayMs

\* a request re-issued after a 429 with retry-after = 2 and backoff = 0
C2_Witness ==
    /\ Intercepted
    /\ pc = "inflight"
    /\ resp.status = 429
    /\ DOMAIN resp.headers = HeaderNames
    /\ resp.headers["retry-after"] = "2"
    /\ resp.headers["backoff"] = "0"
    /\ delayMs = 2000
    /\ elapsed = 2000

\* a failure the interceptor must pass on: no response, or a 4xx other than 429
NotRetryable(r) == ~r.hasResponse \/ (r.status >= 400 /\ r.status < 500 /\ r.status # 429)

\* C3: when the endpoint answers a request with a 4xx other than 429, or the
\* request fails without a response, the awaiting operation is rejected with
\* that error in the same step: no timer is armed, no time passes and nothing
\* is re-issued for it.
C3_ClientErrorImmediate ==
    [][(pc = "inflight" /\ pc' # "inflight" /\ NotRetryable(resp')) =>
          /\ pc' = "rejected"
          /\ outcome' = [kind |-> IF resp'.hasResponse THEN "error" ELSE "network",
                         status |-> resp'.status]
          /\ attempts' = attempts
          /\ delayMs' = delayMs
          /\ elapsed' = elapsed]_vars

\* a 404 rejected on a client with the interceptor, on the first attempt
C3_Witness ==
    /\ Intercepted
    /\ pc = "rejected"
    /\ resp.status = 404
    /\ outcome = [kind |-> "error", status |-> 404]
    /\ attempts = 1
    /\ elapsed = 0

\* C4: no operation that calls the remote API observes a 429 or 5xx error.
C4_NoRetryableErrorSurfaces ==
    ~(outcome.kind = "error" /\ (outcome.status = 429 \/ outcome.status >= 500))

\* C5: the interceptor has no attempt cap: however many failures it has already
\* retried, a 429/5xx answer is never passed to the awaiting operation, so a
\* send returns only on an answer that is not 429/5xx; and every suspended
\* retry does put the same request on the wire again.
C5_NoAttemptCap ==
    /\ [](Intercepted =>
            /\ Retryable(resp) => pc \in {"waiting", "inflight"}
            /\ pc \in {"resolved", "rejected"} => ~Retryable(resp))
    /\ [](pc = "waiting" => <>(pc = "inflight" /\ sent = config))

\* the request is on the wire again after MaxCount failures
C5_Witness ==
    /\ Intercepted
    /\ pc = "inflight"
    /\ failures = MaxCount
    /\ Retryable(resp)

(***************************************************************************)
(* Properties of the delta merge                                           *)
(***************************************************************************)
ItemSet(a) == {a[i] : i \in 1..Len(a)} \ {Hole}

KeySet(a) == {a[i].key : i \in 1..Len(a)} \ {Hole.key}

ModifiedFor(d, k) == CHOOSE i \in 1..Len(d.modified) : d.modified[i].key = k

IsNew(s, it) == it.key \notin KeySet(s)

NotDeletedIn(d, it) == it.key \notin d.deleted

\* the merge result as stated: modified items replace in place, new items are
\* appended in delta order, deleted keys are removed
ExpectedMerge(s, d) ==
    LET replaced == [i \in 1..Len(s) |->
                        IF \E n \in 1..Len(d.modified) : d.modified[n].key = s[i].key
                        THEN d.modified[ModifiedFor(d, s[i].key)]
                        ELSE s[i]]
        appended == SelectSeq(d.modified, LAMBDA it : IsNew(s, it))
    IN SelectSeq(replaced \o appended, LAMBDA it : NotDeletedIn(d, it))

\* C6: the merged list is the snapshot with modified items replaced in place,
\* new items appended in delta order and deleted keys removed.
C6_MergeResultOrder ==
    merges > 0 => heap[current] = ExpectedMerge(prev, delta)

\* C7: the keys of the served item list are unique after any sequence of merges.
C7_KeysUnique ==
    \A i, j \in 1..Len(heap[current]) :
        (i # j /\ heap[current][i] # Hole) => heap[current][i].key # heap[current][j].key

\* C8: after a merge no item of the result has a key of delta.deleted.
C8_NoDeletedKey ==
    merges > 0 => KeySet(heap[current]) \cap delta.deleted = {}

\* C9: a merge leaves its input array as it was (same length, same item at each
\* position) and returns another array.
C9_InputUnchanged ==
    merges > 0 =>
        /\ current # prevRef
        /\ prevRef \in DOMAIN heap
        /\ heap[prevRef] = prev

\* a merge that replaced an item of the snapshot, deleted one and appended one
C9_Witness ==
    /\ merges > 0
    /\ \E i \in 1..Len(delta.modified) : delta.modified[i].key \in KeySet(prev)
    /\ \E i \in 1..Len(delta.modified) : delta.modified[i].key \notin KeySet(prev)
    /\ delta.deleted \cap KeySet(prev) # {}
    /\ heap[current] # prev
    /\ heap[prevRef] = prev

\* the modified and the deleted keys of a and b are pairwise disjoint
PairwiseDisjoint(a, b) ==
    /\ TouchedKeys(a) \cap TouchedKeys(b) = {}
    /\ KeySet(a.modified) \cap a.deleted = {}
    /\ KeySet(b.modified) \cap b.deleted = {}

\* C10: two deltas on pairwise disjoint keys give the same set of items in
\* either merge order.
C10_OrderIndependent ==
    (r12 # <<>> /\ PairwiseDisjoint(d1, d2)) => ItemSet(r12[1]) = ItemSet(r21[1])

PagesInOrder(n) == Flat([j \in 1..n |-> <<100 * j, 100 * j + 1>>])

\* C12: the sequence returned is the concatenation of the page results in page
\* order, whatever order the answers arrived in.
C12_PageOrder ==
    pager.ppc = "done" => pager.returned = PagesInOrder(pager.nbExtraCalls)

\* a fetch that returned although answers of its last batch arrived out of page order
C12_Witness ==
    /\ pager.ppc = "done"
    /\ pager.nbExtraCalls >= 2
    /\ pager.returned # <<>>
    /\ \E a, b \in 1..Len(pager.arrival) : a < b /\ pager.arrival[a] > pager.arrival[b]

\* C13: a fetch with a failed page fails with a PartialFetchError and returns
\* no item sequence.
C13_PartialFetchError ==
    pager.failed # {} =>
        /\ pager.ppc = "failed"
        /\ pager.error.kind = "PartialFetchError"
        /\ pager.returned = <<>>

\* C33: page j of the nbExtraCalls remaining pages is requested exactly once,
\* with start offset 100 * (j + 1), so no page is skipped or requested twice and
\* no two requests carry the same offset; requests are issued only when no
\* request of the previous batch is outstanding.
C33_EachPageOnce ==
    /\ [](/\ \A k \in 1..Len(pager.requests) :
              /\ pager.requests[k].page = k - 1
              /\ pager.requests[k].start = 100 * k
          /\ \A a, b \in 1..Len(pager.requests) :
              a # b => pager.requests[a].start # pager.requests[b].start
          /\ Len(pager.requests) <= pager.nbExtraCalls
          /\ pager.ppc = "done" => Len(pager.requests) = pager.nbExtraCalls)
    /\ [][pager'.requests # pager.requests =>
              /\ pager.inflight = {}
              /\ pager.completed = {r.page : r \in {pager.requests[k] : k \in 1..Len(pager.requests)}}]_vars

\* a fetch of seven remaining pages, not a multiple of five, that returned
\* after a batch of five and a batch of two
C33_Witness ==
    /\ pager.ppc = "done"
    /\ pager.nbExtraCalls = 7
    /\ Len(pager.requests) = 7
    /\ pager.i = 10

(***************************************************************************)
(* Properties of the tag index                                             *)
(***************************************************************************)
\* the case-folded form of a token
Folded(t) == IF t \in {"AI", "ai"} THEN "ai" ELSE "ml"

\* the number of tokens of q that fold to tok
Occurrences(q, tok) == Cardinality({i \in 1..Len(q) : Folded(q[i]) = tok})

\* C14: the index has exactly one entry per distinct lower-cased token of the
\* input, and each entry holds one source reference per input token that
\* normalizes to it.
C14_CaseInsensitiveIndex ==
    tagger.called =>
        /\ {tagger.output[i].token : i \in 1..Len(tagger.output)}
              = {Folded(tagger.given[i]) : i \in 1..Len(tagger.given)}
        /\ \A i, j \in 1..Len(tagger.output) :
              i # j => tagger.output[i].token # tagger.output[j].token
        /\ \A i \in 1..Len(tagger.output) :
              Len(tagger.output[i].zotero) = Occurrences(tagger.given, tagger.output[i].token)

\* the index of [AI, ai, ML]: ai with two references and ml with one
C14_Witness ==
    /\ tagger.called
    /\ tagger.given = <<"AI", "ai", "ML">>
    /\ Len(tagger.output) = 2
    /\ \E i \in 1..2 : tagger.output[i].token = "ai" /\ Len(tagger.output[i].zotero) = 2
    /\ \E i \in 1..2 : tagger.output[i].token = "ml" /\ Len(tagger.output[i].zotero) = 1

RECURSIVE FirstOccurrences(_, _)
\* the case-folded tokens of q in the order of their first occurrence, after seen
FirstOccurrences(q, seen) ==
    IF q = <<>> THEN seen
    ELSE IF \E k \in 1..Len(seen) : seen[k] = Folded(Head(q))
         THEN FirstOccurrences(Tail(q), seen)
         ELSE FirstOccurrences(Tail(q), Append(seen, Folded(Head(q))))

\* C34: the entries of the index are in the order of first occurrence of their
\* normalized token in the input, and the input token list is left unchanged.
C34_FirstOccurrenceOrder ==
    tagger.called =>
        /\ [i \in 1..Len(tagger.output) |-> tagger.output[i].token]
              = FirstOccurrences(tagger.given, <<>>)
        /\ tagger.z_data = tagger.given

(***************************************************************************)
(* Properties of the cache store                                           *)
(***************************************************************************)
\* what a read of id must answer in store c: the snapshot last written, unless
\* there is none or it was stored more than 3 days ago
Readable(c, id) ==
    IF c.records[id].present /\ c.now <= c.records[id].storedAt + 3
    THEN <<TRUE, c.records[id].snapshot>>
    ELSE <<FALSE, NoSnapshot>>

CallsDuringCycle(c) ==
    /\ sync.calls[c].status # "waiting"
    /\ sync'.calls[c].status = "waiting"
    /\ sync.state[sync'.calls[c].id] # "Idle"

Settled(call) == call.status \in {"resolved", "rejected"}

\* C15: a requestSync(id) made while a cycle for id is in progress starts no
\* fetch cycle (the count of fetch cycles and the state of id stay as they
\* are) and attaches the caller to the cycle in progress; two calls attached
\* to the same cycle resolve to the same snapshot or the same failure.
C15_AtMostOneInFlight ==
    [][/\ \A c \in Callers : CallsDuringCycle(c) =>
            /\ sync'.cycleNo = sync.cycleNo
            /\ sync'.state = sync.state
            /\ sync'.calls[c].cycle = sync.cycleNo[sync'.calls[c].id]
       /\ \A c1, c2 \in Callers :
            (/\ Settled(sync'.calls[c1]) /\ Settled(sync'.calls[c2])
             /\ sync'.calls[c1].id = sync'.calls[c2].id
             /\ sync'.calls[c1].cycle = sync'.calls[c2].cycle
             /\ sync'.calls[c1].cycle > 0)
            => sync'.calls[c1] = sync'.calls[c2]]_vars

\* both callers were answered by the one cycle of lib1, with its snapshot
C15_Witness ==
    /\ sync.calls["c1"].status = "resolved"
    /\ sync.calls["c2"].status = "resolved"
    /\ sync.calls["c1"].id = "lib1" /\ sync.calls["c2"].id = "lib1"
    /\ sync.calls["c1"].cycle = 1 /\ sync.calls["c2"].cycle = 1
    /\ sync.cycleNo["lib1"] = 1

\* C16: while a cycle is in Fetching, Merging or Failed, and when it fails and
\* reverts to Idle, the snapshot served, the cache record and what the
\* subscriber was given stay as they are; when a failed cycle reverts, every
\* caller waiting for it receives a SyncError.
C16_FailureChangesNothing ==
    [][\A id \in Identities :
        /\ (sync.state[id] \in {"Fetching", "Merging", "Failed"}
                /\ sync'.state[id] # "Publishing") =>
              /\ sync'.served[id] = sync.served[id]
              /\ cache'.records[id] = cache.records[id]
              /\ sync'.notified[id] = sync.notified[id]
        /\ (sync.state[id] = "Failed" /\ sync'.state[id] = "Idle") =>
              \A c \in Callers :
                 (sync.calls[c].status = "waiting" /\ sync.calls[c].id = id) =>
                    /\ sync'.calls[c].status = "rejected"
                    /\ sync'.calls[c].error = "SyncError"]_vars

\* a cycle of lib1 failed while fetching; its caller has the SyncError and the
\* snapshot of before is still served
C16_Witness ==
    /\ sync.state["lib1"] = "Idle"
    /\ sync.cyc["lib1"].failedIn = "Fetching"
    /\ sync.served["lib1"] # NoSnapshot
    /\ cache.records["lib1"].snapshot = sync.served["lib1"]
    /\ \E c \in Callers : sync.calls[c].id = "lib1" /\ sync.calls[c].error = "SyncError"

\* the moves of the state machine
AllowedMoves ==
    {<<"Idle", "Fetching">>, <<"Fetching", "Merging">>, <<"Merging", "Publishing">>,
     <<"Publishing", "Idle">>, <<"Fetching", "Failed">>, <<"Merging", "Failed">>,
     <<"Failed", "Idle">>}

\* C17: the state of an identity changes only along Idle, Fetching, Merging,
\* Publishing, Idle, or from Fetching or Merging to Failed and from Failed to
\* Idle; a cycle in Publishing has not failed; and, when the transport calls
\* return, a cycle that is not Idle eventually is.
C17_StateMachine ==
    /\ [][\A id \in Identities :
            /\ sync'.state[id] # sync.state[id] =>
                  <<sync.state[id], sync'.state[id]>> \in AllowedMoves
            /\ sync'.state[id] = "Publishing" => sync'.cyc[id].failedIn = "none"]_vars
    /\ \A id \in Identities : (sync.state[id] # "Idle") ~> (sync.state[id] = "Idle")

\* a cycle of lib1 went Fetching, Merging, Failed and is Idle again
C17_Witness ==
    /\ sync.state["lib1"] = "Idle"
    /\ sync.cyc["lib1"].failedIn = "Merging"

C20_MergeOnlyOntoBase ==
    /\ \A id \in Identities :
          (sync.state[id] = "Publishing" /\ sync.cyc[id].merged = "delta") =>
              sync.cyc[id].base = sync.served[id].version
    /\ \A c \in Callers : sync.calls[c].error # "VersionConflict"

(***************************************************************************)
(* Properties of the parent-child views                                    *)
(***************************************************************************)
\* the children in list whose parentItem is itemKey in library lib
ChildrenOf(list, itemKey, lib) ==
    SelectSeq(list, LAMBDA c : c.data.parentItem = itemKey /\ c.library = lib)

\* C22: identifyChildren with the pre-built index answers, for an item and its
\* library, exactly the attachments and the notes whose parentItem is that
\* item in that library, in list order (the result of filtering the full
\* lists); a child whose parentItem is no item's key is in no answer, and an
\* item without children gets empty lists.
C22_ChildrenByIndex ==
    kids.asked =>
        /\ kids.result.pdfs = ChildrenOf(kids.pdfs, kids.itemKey, kids.library)
        /\ kids.result.notes = ChildrenOf(kids.notes, kids.itemKey, kids.library)
        /\ \A k \in 1..Len(kids.result.pdfs) : kids.result.pdfs[k].data.parentItem \in ItemKeys
        /\ \A k \in 1..Len(kids.result.notes) : kids.result.notes[k].data.parentItem \in ItemKeys

\* an item with one attachment found among an orphan and another library's child
C22_Witness ==
    /\ kids.asked
    /\ Len(kids.result.pdfs) = 1
    /\ Len(kids.pdfs) = 2
    /\ \E k \in 1..Len(kids.pdfs) : kids.pdfs[k].data.parentItem = "X"
    /\ kids.result.notes = <<>>
    /\ kids.notes # <<>>

(***************************************************************************)
(* Properties of the scripts                                               *)
(***************************************************************************)
\* the number of batches of n items
BatchCount(n) == (n + 49) \div 50

\* C23: addItemsToZotero posts n items in ceil(n/50) batches which, put end to
\* end, are the items in their order; every batch but the last has 50 items
\* and the last has 1 to 50; the titles printed for the k-th batch are those of
\* the items at the returned success indices counted from the start of that
\* batch.
C23_BatchesInOrder ==
    /\ upload.pc = "done" =>
          /\ Len(upload.posts) = BatchCount(upload.n)
          /\ Flat(upload.posts) = [k \in 1..upload.n |-> k]
          /\ \A k \in 1..Len(upload.posts) :
                /\ k < Len(upload.posts) => Len(upload.posts[k]) = 50
                /\ Len(upload.posts[k]) \in 1..50
    /\ \A k \in 1..Len(upload.shown) :
          upload.shown[k] = {50 * (k - 1) + idx + 1 : idx \in upload.answers[k].success}

\* 101 items went out in three batches; of the last one index 0 succeeded
C23_Witness ==
    /\ upload.pc = "done"
    /\ upload.n = 101
    /\ Len(upload.posts) = 3
    /\ upload.answers[3].success = {0}
    /\ upload.answers[2].success = 0..49

\* the events are "post", "wait", "post", ... and a finished run ends on a post
Alternates(events, finished) ==
    /\ \A k \in 1..Len(events) : events[k] = IF k % 2 = 1 THEN "post" ELSE "wait"
    /\ finished => Len(events) % 2 = 1 \/ events = <<>>

\* C24: in addItemsToZotero and in main of add-annotations at most one request
\* is on the wire; a POST is the first one or is issued when a wait of 1000 ms
\* that followed the settling of the previous POST is over; posts and waits
\* alternate, and a finished run ends on a post, not on a wait.
C24_SequentialSpaced ==
    /\ [](/\ upload.inflight <= 1
          /\ annot.inflight <= 1
          /\ Alternates(upload.events, upload.pc = "done")
          /\ Alternates(annot.events, annot.pc = "done")
          /\ upload.pc = "done" => Len(upload.events) = 2 * BatchCount(upload.n) - 1
                                      \/ upload.n = 0
          /\ annot.pc = "done" => Len(annot.events) = 2 * Len(annot.pdfs) - 1)
    /\ [][/\ Len(upload'.posts) > Len(upload.posts) =>
                /\ upload'.inflight = 1
                /\ upload.posts = <<>> \/ (upload.pc = "waiting" /\ upload.timer = 1000)
          /\ Len(annot'.posts) > Len(annot.posts) =>
                /\ annot'.inflight = 1
                /\ annot.posts = <<>> \/ (annot.pc = "waiting" /\ annot.timer = 1000)
          /\ upload'.pc = "waiting" => upload.pc \in {"posting", "waiting"}
          /\ annot'.pc = "waiting" => annot.pc \in {"posting", "waiting"}]_vars

\* three batches went out, with a wait after the first and after the second
C24_Witness ==
    /\ upload.pc = "done"
    /\ upload.events = <<"post", "wait", "post", "wait", "post">>

\* the annotations of two PDFs went out with one wait between them
C24_WitnessPdfs ==
    /\ annot.pc = "done"
    /\ annot.events = <<"post", "wait", "post">>

\* C25: when the POST of a batch is rejected, failCount grows by the size of
\* that batch, successCount stays, no title of the batch is printed, and the
\* run still posts every batch.
C25_BatchFailureIsolated ==
    /\ [][(Len(upload'.answers) > Len(upload.answers)
            /\ upload'.answers[Len(upload'.answers)].kind = "error") =>
              /\ upload'.failCount = upload.failCount + Len(upload.posts[Len(upload.posts)])
              /\ upload'.successCount = upload.successCount
              /\ upload'.shown[Len(upload'.shown)] = {}]_vars
    /\ [](upload.pc = "done" => Len(upload.posts) = BatchCount(upload.n))

\* of three batches the first was rejected and the other two were accepted
C25_Witness ==
    /\ upload.pc = "done"
    /\ Len(upload.answers) = 3
    /\ upload.answers[1].kind = "error"
    /\ upload.failCount = 50
    /\ upload.successCount = 51

\* C26: when addItemsToZotero is done, successCount + failCount is the number
\* of items.
C26_CountsAddUp ==
    upload.pc = "done" => upload.successCount + upload.failCount = upload.n

\* C21: no POST call of addItemsToZotero, of main of add-annotations or of
\* main of add-collections-and-notes carries more than 50 records.
C21_AtMostFiftyPerWrite ==
    /\ \A k \in 1..Len(upload.posts) : Len(upload.posts[k]) <= 50
    /\ \A k \in 1..Len(annot.posts) : Len(annot.posts[k]) <= 50
    /\ \A k \in 1..Len(collect.posts) : Len(collect.posts[k].body) <= 50

\* what main of add-collections-and-notes starts, given what was created and fetched
ExpectedEvents(c) ==
    <<"createCollections", "wait", "getItems", "wait">>
        \o (IF DOMAIN c.collectionMap # {} /\ c.items # <<>>
            THEN <<"organizeItemsIntoCollections", "wait">> ELSE <<>>)
        \o (IF c.items # <<>> THEN <<"addNotesToItems", "wait">> ELSE <<>>)
        \o <<"addStandaloneNotes">>

\* C27: main starts createCollections, getItems, organizeItemsIntoCollections
\* (only if something was created and fetched), addNotesToItems (only if
\* something was fetched) and addStandaloneNotes in this order, with a wait of
\* 1000 ms after every step but the last, and a run that has ended has
\* started addStandaloneNotes.
C27_StepsInOrder ==
    /\ Len(collect.events) <= Len(ExpectedEvents(collect))
    /\ \A k \in 1..Len(collect.events) :
          k <= Len(ExpectedEvents(collect)) => collect.events[k] = ExpectedEvents(collect)[k]
    /\ collect.pc = "waiting" => collect.timer = 1000
    /\ collect.inflight <= 1
    /\ collect.pc \in {"done", "crashed"} => collect.events = ExpectedEvents(collect)

\* C28: no step of main of add-collections-and-notes ends main: whatever the
\* server answers, main does not stop before its final report.
C28_StepFailureIsolated ==
    collect.pc # "crashed"

\* the names of the collections whose patterns a title matches
TitleMatches(title) ==
    (IF \E k \in 1..Len(title.parts) : title.parts[k] \in {"DEEP LEARNING", "Deep Learning"}
     THEN {"Machine Learning & AI"} ELSE {})
    \cup (IF \E k \in 1..Len(title.parts) : title.parts[k] = "Superintelligence"
          THEN {"Ethics & Philosophy"} ELSE {})

Range(q) == {q[k] : k \in 1..Len(q)}

\* C29: every update of organizeItemsIntoCollections adds, to an item, the key
\* of a created collection whose patterns the item's title matches and which
\* the item is not in yet; the only POST of the step carries these updates,
\* and without updates the step posts nothing.
C29_OrganizeIdempotent ==
    /\ \A k \in 1..Len(collect.updates) :
          LET u    == collect.updates[k]
              item == collect.items[u.key]
              ck   == u.collections[Len(u.collections)]
          IN /\ ck \notin Range(item.data.collections)
             /\ \E name \in DOMAIN collect.collectionMap \cap TitleMatches(item.data.title) :
                    collect.collectionMap[name] = ck
    /\ \A k \in 1..Len(collect.posts) :
          collect.posts[k].step = "organizeItemsIntoCollections" =>
              collect.posts[k].body # <<>> /\ collect.posts[k].body = collect.updates

\* the step ran on an item that is in both collections it matches: no
\* update, no POST of the step
C29_Witness ==
    /\ collect.pc = "done"
    /\ \E k \in 1..Len(collect.events) : collect.events[k] = "organizeItemsIntoCollections"
    /\ collect.updates = <<>>
    /\ \A k \in 1..Len(collect.posts) : collect.posts[k].step # "organizeItemsIntoCollections"
    /\ collect.items # <<>>
    /\ \A k \in 1..Len(collect.items) :
          /\ collect.items[k].data.title.parts = <<"Deep Learning", "Superintelligence">>
          /\ collect.items[k].data.collections = <<"K1", "K4">>
    /\ DOMAIN collect.collectionMap = {"Machine Learning & AI", "Ethics & Philosophy"}

\* C30: the updates hold at most one record per item key, and the collections
\* of a record are the item's current ones plus the key of every created
\* collection its title matches.
C30_OneUpdatePerItem ==
    /\ \A a, b \in 1..Len(collect.updates) :
          a # b => collect.updates[a].key # collect.updates[b].key
    /\ \A k \in 1..Len(collect.updates) :
          LET u    == collect.updates[k]
              item == collect.items[u.key]
          IN Range(u.collections) =
                Range(item.data.collections)
                    \cup {collect.collectionMap[name] :
                            name \in DOMAIN collect.collectionMap \cap TitleMatches(item.data.title)}

(***************************************************************************)
(* Properties of the script start                                          *)
(***************************************************************************)
\* the environment file can be read and sets no ZOTORO_USER or no ZOTORO_API_KEY
CredentialMissing ==
    /\ boot.file.readable
    /\ \/ boot.file.ZOTORO_USER \in {Undefined, ""}
       \/ boot.file.ZOTORO_API_KEY \in {Undefined, ""}

\* C32: a script started without ZOTORO_USER or ZOTORO_API_KEY in the
\* environment file sends no HTTP request, and it ends by reporting the missing
\* credential and exiting with status 1.
C32_NoRequestWithoutCredentials ==
    (boot.script \in Scripts /\ CredentialMissing) =>
        /\ boot.requests = <<>>
        /\ boot.bpc \in {"start", "loaded", "exited"}
        /\ boot.bpc = "exited" =>
              /\ boot.exitCode = 1
              /\ boot.reported = "Missing ZOTORO_USER or ZOTORO_API_KEY in .env file"

(***************************************************************************)
(* Properties of the error display                                         *)
(***************************************************************************)
\* the status of the error shown, -1 when it has no response
ShownStatus ==
    IF callout.props.error.response.present THEN callout.props.error.response.status ELSE -1

\* the error shown is an Axios error
ShownIsAxios == callout.props.error.name = "AxiosError" \/ callout.props.error.isAxiosError

\* C31: for an Axios error, status 404 shows 'Not Found', 403 'Access Denied',
\* a status >= 500 'Server Error', and only when none of these applies and the
\* browser is offline 'No Internet Connection'; in every other case the error's
\* own name and message are shown. The button is rendered if and only if
\* resetErrorBoundary was passed.
C31_FriendlyTitles ==
    callout.rendered =>
        /\ (ShownIsAxios /\ ShownStatus = 404) => callout.element.title = "Not Found"
        /\ (ShownIsAxios /\ ShownStatus = 403) => callout.element.title = "Access Denied"
        /\ (ShownIsAxios /\ ShownStatus >= 500) => callout.element.title = "Server Error"
        /\ (ShownIsAxios /\ ShownStatus \notin {403, 404} /\ ShownStatus < 500 /\ ~callout.sawOnLine)
              => callout.element.title = "No Internet Connection"
        /\ (~ShownIsAxios \/ (ShownStatus \notin {403, 404} /\ ShownStatus < 500 /\ callout.sawOnLine))
              => /\ callout.element.title = callout.props.error.name
                 /\ callout.element.message = callout.props.error.message
        /\ callout.element.title \in {"Not Found", "Access Denied", "Server Error",
                                      "No Internet Connection"}
              => callout.element.message # callout.props.error.message
        /\ (callout.element.buttons # <<>>) <=> (callout.props.resetErrorBoundary # NotPassed)
        /\ Len(callout.element.buttons) <= 1

\* an Axios error with status 404 rendered while the browser was offline, with
\* a reset handler: the status wins and the button is there
C31_Witness ==
    /\ callout.rendered
    /\ callout.props.error.isAxiosError
    /\ callout.props.error.response.present
    /\ callout.props.error.response.status = 404
    /\ ~callout.sawOnLine
    /\ callout.element.title = "Not Found"
    /\ callout.props.resetErrorBoundary # NotPassed
    /\ Len(callout.element.buttons) = 1

====
